---------------------------- MODULE Spec2Model ----------------------------
(***************************************************************************)
(* A model of scripts/generate_report.py: the cloud-API adapter            *)
(* (call_cloud_api and its helpers extract_by_path, replace_placeholders,  *)
(* build_default_payload, getenv), ensure_minimum_sections and main of     *)
(* the auto-daily-report repository.                                       *)
(*                                                                         *)
(* Text.  A Python str is modelled as a sequence of symbols.  A symbol is  *)
(* a fixed chunk of characters ("." "," " " "0" "choices" "think>" ...);   *)
(* the text a sequence denotes is the concatenation of its chunks.  The    *)
(* alphabets used below are chosen so that every occurrence of a pattern   *)
(* the code searches for ("." "," "{{name}}" "<think>" ...) starts and     *)
(* ends on a chunk boundary; the operators on text then compute on chunks  *)
(* exactly what the Python code computes on characters.                    *)
(*                                                                         *)
(* JSON.  A decoded JSON value is a tagged record; a dict is the sequence  *)
(* of its items in insertion order, as in Python.                          *)
(***************************************************************************)
EXTENDS Integers, Sequences, FiniteSets, TLC

VARIABLES
    pc,        \* stage of the running operation
    args,      \* the inputs of the operation: arguments, environment, network reply
    ret,       \* what the operation returned or raised
    conf,      \* call_cloud_api: the settings read from the environment
    payload,   \* call_cloud_api: the request body built
    headers,   \* call_cloud_api: the request headers built
    sent,      \* the HTTP requests issued so far
    raw,       \* call_cloud_api: the response body read
    result,    \* call_cloud_api: the decoded response
    value,     \* call_cloud_api: the value extracted from the response
    text,      \* call_cloud_api: the text being returned
    fs,        \* main: the files and directories main reads and writes
    exit_code, \* main: the exit status, once main has ended
    parked     \* the local variables of the invocations that are not running

vars == <<pc, args, ret, conf, payload, headers, sent, raw, result, value, text,
          fs, exit_code, parked>>

-----------------------------------------------------------------------------
(* Bounds of the analysis *)

\* the longest dotted path tried on extract_by_path, in chunks
MaxPathLen == 5
\* the longest text given to _strip_think_blocks, in chunks
MaxTextLen == 5
\* the longest template string given to replace_placeholders, in chunks
MaxTemplateLen == 5
\* the longest content list given to _normalize_to_text, in elements
MaxItems == 2
MaxEnvLen == 2        \* getenv: longest value and default
MaxLeadLen == 2       \* ensure_minimum_sections: longest text ahead of the sections

-----------------------------------------------------------------------------
(* Python str operations on symbol sequences *)

\* str.isspace() of one symbol
IsSpace(c) == c \in {" ", "\n", "\t"}

RECURSIVE LStrip(_)
LStrip(s) ==
    IF s = <<>> THEN <<>>
    ELSE IF IsSpace(Head(s)) THEN LStrip(Tail(s)) ELSE s

RECURSIVE RStrip(_)
RStrip(s) ==
    IF s = <<>> THEN <<>>
    ELSE IF IsSpace(s[Len(s)]) THEN RStrip(SubSeq(s, 1, Len(s) - 1)) ELSE s

\* str.strip()
StrStrip(s) == RStrip(LStrip(s))

\* s.startswith(p) at 1-based position i
MatchAt(s, i, p) ==
    /\ i + Len(p) - 1 <= Len(s)
    /\ \A j \in 1..Len(p) : s[i + j - 1] = p[j]

\* str.split(sep) for a one-symbol separator: "".split(".") == [""]
RECURSIVE SplitOn(_, _)
SplitOn(s, sep) ==
    IF \A i \in 1..Len(s) : s[i] # sep THEN <<s>>
    ELSE LET i == CHOOSE k \in 1..Len(s) :
                      /\ s[k] = sep
                      /\ \A j \in 1..(k - 1) : s[j] # sep
         IN  <<SubSeq(s, 1, i - 1)>> \o SplitOn(SubSeq(s, i + 1, Len(s)), sep)

-----------------------------------------------------------------------------
(* JSON values as json.loads returns them *)

JNull == [t |-> "null"]
JBool(b) == [t |-> "bool", b |-> b]
\* a number, carried by the text str() gives for it
JNum(lit) == [t |-> "num", lit |-> lit]
JStr(s) == [t |-> "str", s |-> s]
JList(l) == [t |-> "list", l |-> l]
\* a dict: its items, in insertion order
JMap(m) == [t |-> "map", m |-> m]
Item(k, v) == [k |-> k, v |-> v]

HasKey(m, k) == \E i \in 1..Len(m) : m[i].k = k
\* dict[k], for a key that is present
Lookup(m, k) == m[CHOOSE i \in 1..Len(m) : m[i].k = k].v

\* an exception raised, a value returned
Raise(kind, detail) == [ok |-> FALSE, kind |-> kind, detail |-> detail]
Return(v) == [ok |-> TRUE, val |-> v]

-----------------------------------------------------------------------------
(* extract_by_path *)

IsDigit(c) == c \in {"0", "1", "2", "3", "4", "5", "6", "7", "8", "9"}
DigitVal(c) ==
    CASE c = "0" -> 0 [] c = "1" -> 1 [] c = "2" -> 2 [] c = "3" -> 3
      [] c = "4" -> 4 [] c = "5" -> 5 [] c = "6" -> 6 [] c = "7" -> 7
      [] c = "8" -> 8 [] c = "9" -> 9

RECURSIVE DigitsVal(_)
DigitsVal(ds) ==
    IF ds = <<>> THEN 0
    ELSE 10 * DigitsVal(SubSeq(ds, 1, Len(ds) - 1)) + DigitVal(ds[Len(ds)])

\* int(part): surrounding whitespace is ignored, one optional sign, then
\* one or more decimal digits; anything else raises ValueError.
IntParse(part) ==
    LET body   == StrStrip(part)
        signed == body # <<>> /\ Head(body) \in {"-", "+"}
        digits == IF signed THEN Tail(body) ELSE body
    IN  IF digits # <<>> /\ \A i \in 1..Len(digits) : IsDigit(digits[i])
        THEN Return(IF signed /\ Head(body) = "-"
                    THEN 0 - DigitsVal(digits) ELSE DigitsVal(digits))
        ELSE Raise("ValueError", part)

\* cur[idx] on a list: Python counts a negative index from the end
ListIndex(l, idx) ==
    IF 0 <= idx /\ idx < Len(l) THEN Return(l[idx + 1])
    ELSE IF idx < 0 /\ 0 - idx <= Len(l) THEN Return(l[Len(l) + idx + 1])
    ELSE Raise("IndexError", idx)

\* one iteration of the loop over path.split(".")
Navigate(cur, part) ==
    IF cur.t = "list"
    THEN LET idx == IntParse(part)
         IN  IF idx.ok THEN ListIndex(cur.l, idx.val) ELSE idx
    ELSE IF cur.t = "map"
    THEN IF HasKey(cur.m, part) THEN Return(Lookup(cur.m, part))
         ELSE Raise("KeyError", part)
    ELSE Raise("KeyError", part)

RECURSIVE WalkParts(_, _)
WalkParts(cur, parts) ==
    IF parts = <<>> THEN Return(cur)
    ELSE LET step == Navigate(cur, Head(parts))
         IN  IF step.ok THEN WalkParts(step.val, Tail(parts)) ELSE step

\* an extract_by_path without its first two lines
ExtractByPathMutNoEmptyCheck(data, path) == WalkParts(data, SplitOn(path, "."))

ExtractByPath(data, path) ==
    IF path = <<>> THEN Return(data)
    ELSE WalkParts(data, SplitOn(path, "."))

-----------------------------------------------------------------------------
(* More str operations *)

\* str.lower(), chunk by chunk
LowerSym(c) ==
    CASE c = "TRUE" -> "true"
      [] c = "ON" -> "on"
      [] c = "Reasoning" -> "reasoning"
      [] c = "Thought" -> "thought"
      [] c = "Thinking" -> "thinking"
      [] c = "</THINK>" -> "</think>"
      [] c = "THINK>" -> "think>"
      [] OTHER -> c

StrLower(s) == [i \in 1..Len(s) |-> LowerSym(s[i])]

\* str.replace(old, new) for a non-empty old: the occurrences are found left
\* to right and do not overlap; what was inserted is not searched again.
RECURSIVE StrReplace(_, _, _)
StrReplace(s, old, new) ==
    IF s = <<>> THEN <<>>
    ELSE IF MatchAt(s, 1, old)
    THEN new \o StrReplace(SubSeq(s, Len(old) + 1, Len(s)), old, new)
    ELSE <<Head(s)>> \o StrReplace(Tail(s), old, new)

\* sep.join(chunks)
RECURSIVE StrJoin(_, _)
StrJoin(chunks, sep) ==
    IF chunks = <<>> THEN <<>>
    ELSE IF Len(chunks) = 1 THEN chunks[1]
    ELSE chunks[1] \o sep \o StrJoin(Tail(chunks), sep)

\* [x for x in seq if x] for a list of str
RECURSIVE NonEmpty(_)
NonEmpty(seq) ==
    IF seq = <<>> THEN <<>>
    ELSE IF Head(seq) = <<>> THEN NonEmpty(Tail(seq))
    ELSE <<Head(seq)>> \o NonEmpty(Tail(seq))

-----------------------------------------------------------------------------
(* getenv *)

\* os.getenv(name): None, or the str the variable holds
Unset == [set |-> FALSE]
Set(s) == [set |-> TRUE, s |-> s]

\* getenv with only an unset variable replaced by the default
GetenvMutEmptyIsSet(env, name, default, required) ==
    LET got   == env[name]
        chosen == IF ~got.set THEN default ELSE got
    IN  IF required /\ (~chosen.set \/ StrStrip(chosen.s) = <<>>)
        THEN Raise("Missing required env var", name)
        ELSE Return(IF chosen.set THEN chosen.s ELSE <<>>)

\* lines 35-42
Getenv(env, name, default, required) ==
    LET got   == env[name]
        chosen == IF ~got.set \/ got.s = <<>> \/ StrStrip(got.s) = <<>>
                 THEN default ELSE got
    IN  IF required /\ (~chosen.set \/ StrStrip(chosen.s) = <<>>)
        THEN Raise("Missing required env var", name)
        ELSE Return(IF chosen.set THEN chosen.s ELSE <<>>)

-----------------------------------------------------------------------------
(* json.loads *)

\* The JSON texts that occur as one chunk, and the value each decodes to.
TemplateText == "{\"model\": \"{{model}}\", \"input\": \"{{user_prompt}}\", \"system\": \"{{system_prompt}}\"}"
TemplateDoc ==
    JMap(<<Item(<<"model">>, JStr(<<"{{", "model", "}}">>)),
           Item(<<"input">>, JStr(<<"{{", "user_prompt", "}}">>)),
           Item(<<"system">>, JStr(<<"{{", "system_prompt", "}}">>))>>)

Msg(fields) == JMap(<<Item(<<"choices">>, JList(<<JMap(<<Item(<<"message">>, JMap(fields))>>)>>))>>)

ReplyDocs ==
    ( "{\"choices\":[{\"message\":{\"content\":\"Hello\"}}]}" :>
          Msg(<<Item(<<"content">>, JStr(<<"Hello">>))>>) )
 @@ ( "{\"data\":{\"text\":\"custom-ok\"}}" :>
          JMap(<<Item(<<"data">>, JMap(<<Item(<<"text">>, JStr(<<"custom-ok">>))>>))>>) )
 @@ ( "{\"choices\":[{\"message\":{\"content\":null,\"final\":\"Hello\"}}]}" :>
          Msg(<<Item(<<"content">>, JNull), Item(<<"final">>, JStr(<<"Hello">>))>>) )
 @@ ( "{\"choices\":[{\"message\":{\"content\":\"\"}}],\"text\":\"x\"}" :>
          JMap(<<Item(<<"choices">>, JList(<<JMap(<<Item(<<"message">>,
                      JMap(<<Item(<<"content">>, JStr(<<>>))>>))>>)>>)),
                 Item(<<"text">>, JStr(<<"x">>))>>) )
 @@ ( "{\"choices\":[{\"message\":{\"content\":\"<think>x</think>\"}}]}" :>
          Msg(<<Item(<<"content">>, JStr(<<"<", "think>", "x", "</think>">>))>>) )
 @@ ( "{\"choices\":[{\"message\":{\"content\":\"<think>x</think>Hello\"}}]}" :>
          Msg(<<Item(<<"content">>, JStr(<<"<", "think>", "x", "</think>", "Hello">>))>>) )
 @@ ( "{\"foo\":1}" :> JMap(<<Item(<<"foo">>, JNum(<<"1">>))>>) )
 @@ ( "[]" :> JList(<<>>) )
 @@ ( "{\"text\":\" \\n\"}" :> JMap(<<Item(<<"text">>, JStr(<<" ", "\n">>))>>) )
 @@ ( "{\"text\":{}}" :> JMap(<<Item(<<"text">>, JMap(<<>>))>>) )
 @@ ( "{\"output_text\":[{\"type\":\"reasoning\",\"text\":\"skip\"},{\"type\":\"text\",\"text\":\"keep\"}]}" :>
          JMap(<<Item(<<"output_text">>, JList(<<
              JMap(<<Item(<<"type">>, JStr(<<"reasoning">>)), Item(<<"text">>, JStr(<<"skip">>))>>),
              JMap(<<Item(<<"type">>, JStr(<<"text">>)), Item(<<"text">>, JStr(<<"keep">>))>>)>>))>>) )
 @@ ( "{\"choices\":[{\"message\":{\"final\":\"F\",\"content\":\"Hello\"}}]}" :>
          Msg(<<Item(<<"final">>, JStr(<<"F">>)), Item(<<"content">>, JStr(<<"Hello">>))>>) )
 @@ ( "{\"choices\":[{\"message\":{\"content\":\" <think>x</think> Hello\\n\"}}]}" :>
          Msg(<<Item(<<"content">>,
                     JStr(<<" ", "<", "think>", "x", "</think>", " ", "Hello", "\n">>))>>) )
 @@ ( "{\"choices\":[{\"message\":{\"content\":[\" Hello \",1]}}]}" :>
          Msg(<<Item(<<"content">>, JList(<<JStr(<<" ", "Hello", " ">>), JNum(<<"1">>)>>))>>) )
 @@ ( "{\"choices\":[{\"message\":{\"content\":{\"text\":\" Hello \"}}}]}" :>
          Msg(<<Item(<<"content">>,
                     JMap(<<Item(<<"text">>, JStr(<<" ", "Hello", " ">>))>>))>>) )
 @@ ( "{\"choices\":[{\"message\":{\"content\":1}}]}" :>
          Msg(<<Item(<<"content">>, JNum(<<"1">>))>>) )

\* a REPORT_API_EXTRA_HEADERS_JSON value: it names the default auth header, the
\* content type and one more header
HeadersText == "{\"Authorization\": \"override\", \"Content-Type\": \"text/plain\", \"X-Trace\": \"1\"}"
HeadersDoc ==
    JMap(<<Item(<<"Authorization">>, JStr(<<"override">>)),
           Item(<<"Content-Type">>, JStr(<<"text/plain">>)),
           Item(<<"X-Trace">>, JStr(<<"1">>))>>)

\* a reply whose content is a report with the seven required sections
ReportText == "{\"choices\":[{\"message\":{\"content\":\"## What I Did Today\\n- a\\n## Problems / Blockers\\n- a\\n## Root Cause\\n- a\\n## Attempts & Fixes\\n- a\\n## Key Learnings\\n- a\\n## Metrics\\n- a\\n## Next Steps (Tomorrow)\\n- a\"}}]}"
ReportDoc ==
    Msg(<<Item(<<"content">>, JStr(<<
        "#", "#", " ", "What I Did Today", "\n", "- a",
        "\n", "#", "#", " ", "Problems / Blockers", "\n", "- a",
        "\n", "#", "#", " ", "Root Cause", "\n", "- a",
        "\n", "#", "#", " ", "Attempts & Fixes", "\n", "- a",
        "\n", "#", "#", " ", "Key Learnings", "\n", "- a",
        "\n", "#", "#", " ", "Metrics", "\n", "- a",
        "\n", "#", "#", " ", "Next Steps (Tomorrow)", "\n", "- a">>))>>)

JsonDocs ==
    (TemplateText :> TemplateDoc) @@ (HeadersText :> HeadersDoc)
    @@ ("[1]" :> JList(<<JNum(<<"1">>)>>)) @@ (ReportText :> ReportDoc) @@ ReplyDocs

\* json.loads(s): whitespace around the document is ignored; a text that is
\* not one JSON document raises JSONDecodeError.
JsonLoads(s) ==
    LET body == StrStrip(s)
    IN  IF Len(body) = 1 /\ body[1] \in DOMAIN JsonDocs
        THEN Return(JsonDocs[body[1]])
        ELSE Raise("JSONDecodeError", s)

-----------------------------------------------------------------------------
(* replace_placeholders, build_default_payload *)

Placeholder(k) == <<"{{">> \o k \o <<"}}">>

\* the loop over mapping.items(): one str.replace per binding, in dict order
RECURSIVE ReplaceAll(_, _)
ReplaceAll(out, mapping) ==
    IF mapping = <<>> THEN out
    ELSE ReplaceAll(StrReplace(out, Placeholder(mapping[1].k), mapping[1].v),
                    Tail(mapping))

RECURSIVE ReplacePlaceholders(_, _)
ReplacePlaceholders(obj, mapping) ==
    IF obj.t = "str" THEN JStr(ReplaceAll(obj.s, mapping))
    ELSE IF obj.t = "list"
    THEN JList([i \in 1..Len(obj.l) |-> ReplacePlaceholders(obj.l[i], mapping)])
    ELSE IF obj.t = "map"
    THEN JMap([i \in 1..Len(obj.m) |->
                  Item(obj.m[i].k, ReplacePlaceholders(obj.m[i].v, mapping))])
    ELSE obj

DefaultBody(system_prompt, user_prompt) ==
    <<Item(<<"messages">>, JList(<<
          JMap(<<Item(<<"role">>, JStr(<<"system">>)), Item(<<"content">>, JStr(system_prompt))>>),
          JMap(<<Item(<<"role">>, JStr(<<"user">>)), Item(<<"content">>, JStr(user_prompt))>>)>>)),
      Item(<<"temperature">>, JNum(<<"0", ".", "2">>)),
      Item(<<"top_p">>, JNum(<<"0", ".", "9">>)),
      Item(<<"stream">>, JBool(FALSE))>>

\* a build that sets "model" to None and leaves it in
BuildDefaultPayloadMutNullModel(model, system_prompt, user_prompt) ==
    JMap(<<Item(<<"model">>, IF model # <<>> THEN JStr(model) ELSE JNull)>>
         \o DefaultBody(system_prompt, user_prompt))

\* "model" is set to the model or None, and popped again when it is None
BuildDefaultPayload(model, system_prompt, user_prompt) ==
    LET model_value == IF model # <<>> THEN JStr(model) ELSE JNull
    IN  IF model_value = JNull
        THEN JMap(DefaultBody(system_prompt, user_prompt))
        ELSE JMap(<<Item(<<"model">>, model_value)>>
                  \o DefaultBody(system_prompt, user_prompt))
-----------------------------------------------------------------------------
(* call_cloud_api._extract_first_available *)

FallbackPaths ==
    << <<"choices", ".", "0", ".", "message", ".", "final">>,
       <<"choices", ".", "0", ".", "message", ".", "answer">>,
       <<"choices", ".", "0", ".", "message", ".", "content">>,
       <<"choices", ".", "0", ".", "text">>,
       <<"response", ".", "output_text">>,
       <<"output_text">>,
       <<"data", ".", "text">>,
       <<"text">> >>

InSeq(x, seq) == \E i \in 1..Len(seq) : seq[i] = x

\* [p.strip() for p in paths_csv.split(",") if p.strip()]
ConfiguredPaths(paths_csv) ==
    LET pieces == SplitOn(paths_csv, ",")
    IN  NonEmpty([i \in 1..Len(pieces) |-> StrStrip(pieces[i])])

\* an append that does not look whether the path is already listed
RECURSIVE AppendFallbacksMutNoDedup(_, _)
AppendFallbacksMutNoDedup(paths, fallback_paths) ==
    IF fallback_paths = <<>> THEN paths
    ELSE AppendFallbacksMutNoDedup(Append(paths, Head(fallback_paths)),
                                   Tail(fallback_paths))

\* for p in fallback_paths: if p not in paths: paths.append(p)
RECURSIVE AppendFallbacks(_, _)
AppendFallbacks(paths, fallback_paths) ==
    IF fallback_paths = <<>> THEN paths
    ELSE IF InSeq(Head(fallback_paths), paths)
    THEN AppendFallbacks(paths, Tail(fallback_paths))
    ELSE AppendFallbacks(Append(paths, Head(fallback_paths)), Tail(fallback_paths))

CandidatePathsMutNoDedup(paths_csv) ==
    AppendFallbacksMutNoDedup(ConfiguredPaths(paths_csv), FallbackPaths)

\* the list the loop of _extract_first_available runs over
CandidatePaths(paths_csv) == AppendFallbacks(ConfiguredPaths(paths_csv), FallbackPaths)

NoError == [set |-> FALSE]
SomeError(e) == [set |-> TRUE, err |-> e]

\* values Python treats as false in a condition
Falsy(v) ==
    \/ v.t = "null"
    \/ v.t = "bool" /\ ~v.b
    \/ v.t = "num" /\ v.lit \in {<<"0">>, <<"0", ".", "0">>}
    \/ v.t = "str" /\ v.s = <<>>
    \/ v.t = "list" /\ v.l = <<>>
    \/ v.t = "map" /\ v.m = <<>>

\* a loop that goes on to the next path when the value is null or empty
RECURSIVE TryPathsMutSkipFalsy(_, _, _, _)
TryPathsMutSkipFalsy(data, paths, i, last_err) ==
    IF i > Len(paths)
    THEN IF last_err.set
         THEN Raise("Unable to extract model output from response paths",
                    [paths |-> paths, last |-> last_err.err])
         ELSE Raise("No response paths configured.", <<>>)
    ELSE LET got == ExtractByPath(data, paths[i])
         IN  IF got.ok /\ ~Falsy(got.val) THEN got
             ELSE TryPathsMutSkipFalsy(data, paths, i + 1, SomeError(got))

\* a loop that keeps the first error instead of the last
RECURSIVE TryPathsMutFirstError(_, _, _, _)
TryPathsMutFirstError(data, paths, i, last_err) ==
    IF i > Len(paths)
    THEN IF last_err.set
         THEN Raise("Unable to extract model output from response paths",
                    [paths |-> paths, last |-> last_err.err])
         ELSE Raise("No response paths configured.", <<>>)
    ELSE LET got == ExtractByPath(data, paths[i])
         IN  IF got.ok THEN got
             ELSE TryPathsMutFirstError(data, paths, i + 1,
                      IF last_err.set THEN last_err ELSE SomeError(got))

\* the loop over the candidate paths, from the i-th on
RECURSIVE TryPaths(_, _, _, _)
TryPaths(data, paths, i, last_err) ==
    IF i > Len(paths)
    THEN IF last_err.set
         THEN Raise("Unable to extract model output from response paths",
                    [paths |-> paths, last |-> last_err.err])
         ELSE Raise("No response paths configured.", <<>>)
    ELSE LET got == ExtractByPath(data, paths[i])
         IN  IF got.ok THEN got
             ELSE TryPaths(data, paths, i + 1, SomeError(got))

ExtractFirstAvailableMutSkipFalsy(data, paths_csv) ==
    TryPathsMutSkipFalsy(data, CandidatePaths(paths_csv), 1, NoError)

ExtractFirstAvailableMutFirstError(data, paths_csv) ==
    TryPathsMutFirstError(data, CandidatePaths(paths_csv), 1, NoError)

ExtractFirstAvailable(data, paths_csv) ==
    TryPaths(data, CandidatePaths(paths_csv), 1, NoError)

-----------------------------------------------------------------------------
(* str(), repr() and json.dumps() of a decoded value *)

\* repr() of the characters of a str
ReprSym(c) == IF c = "\n" THEN "\\n" ELSE IF c = "\t" THEN "\\t" ELSE c
ReprChars(s) == [i \in 1..Len(s) |-> ReprSym(s[i])]

RECURSIVE PyRepr(_)
RECURSIVE ReprItems(_)
RECURSIVE ReprElems(_)
PyRepr(v) ==
    CASE v.t = "null" -> <<"None">>
      [] v.t = "bool" -> IF v.b THEN <<"True">> ELSE <<"False">>
      [] v.t = "num" -> v.lit
      [] v.t = "str" -> <<"'">> \o ReprChars(v.s) \o <<"'">>
      [] v.t = "list" -> <<"[">> \o StrJoin(ReprElems(v.l), <<",", " ">>) \o <<"]">>
      [] v.t = "map" -> <<"{">> \o StrJoin(ReprItems(v.m), <<",", " ">>) \o <<"}">>
ReprElems(l) == [i \in 1..Len(l) |-> PyRepr(l[i])]
ReprItems(m) ==
    [i \in 1..Len(m) |-> <<"'">> \o ReprChars(m[i].k) \o <<"'", ":", " ">> \o PyRepr(m[i].v)]

\* str(v): a str is itself, everything else prints as its repr
PyStr(v) == IF v.t = "str" THEN v.s ELSE PyRepr(v)

RECURSIVE JsonDumps(_)
RECURSIVE DumpItems(_)
RECURSIVE DumpElems(_)
JsonDumps(v) ==
    CASE v.t = "null" -> <<"null">>
      [] v.t = "bool" -> IF v.b THEN <<"true">> ELSE <<"false">>
      [] v.t = "num" -> v.lit
      [] v.t = "str" -> <<"\"">> \o ReprChars(v.s) \o <<"\"">>
      [] v.t = "list" -> <<"[">> \o StrJoin(DumpElems(v.l), <<",", " ">>) \o <<"]">>
      [] v.t = "map" -> <<"{">> \o StrJoin(DumpItems(v.m), <<",", " ">>) \o <<"}">>
DumpElems(l) == [i \in 1..Len(l) |-> JsonDumps(l[i])]
DumpItems(m) ==
    [i \in 1..Len(m) |-> <<"\"">> \o ReprChars(m[i].k) \o <<"\"", ":", " ">> \o JsonDumps(m[i].v)]

-----------------------------------------------------------------------------
(* call_cloud_api._normalize_to_text *)

\* item.get(key, "")
GetOr(m, k, default) == IF HasKey(m, k) THEN Lookup(m, k) ELSE default

ReasoningTypes == {<<"reasoning">>, <<"thought">>, <<"thinking">>}

\* an element handling that never skips a reasoning element
ItemChunksMutNeverSkip(item, strip_think) ==
    IF item.t = "map"
    THEN LET item_type == StrLower(PyStr(GetOr(item.m, <<"type">>, JStr(<<>>))))
         IN  IF item_type = <<"text">>
             THEN LET t == GetOr(item.m, <<"text">>, JStr(<<>>))
                  IN  IF ~Falsy(t) THEN <<PyStr(t)>> ELSE <<>>
             ELSE IF HasKey(item.m, <<"text">>)
             THEN <<PyStr(Lookup(item.m, <<"text">>))>>
             ELSE IF HasKey(item.m, <<"content">>)
             THEN <<PyStr(Lookup(item.m, <<"content">>))>>
             ELSE <<>>
    ELSE <<PyStr(item)>>

\* what one element of a list adds to chunks: <<>> (nothing) or <<chunk>>
ItemChunks(item, strip_think) ==
    IF item.t = "map"
    THEN LET item_type == StrLower(PyStr(GetOr(item.m, <<"type">>, JStr(<<>>))))
         IN  IF strip_think /\ item_type \in ReasoningTypes THEN <<>>
             ELSE IF item_type = <<"text">>
             THEN LET t == GetOr(item.m, <<"text">>, JStr(<<>>))
                  IN  IF ~Falsy(t) THEN <<PyStr(t)>> ELSE <<>>
             ELSE IF HasKey(item.m, <<"text">>)
             THEN <<PyStr(Lookup(item.m, <<"text">>))>>
             ELSE IF HasKey(item.m, <<"content">>)
             THEN <<PyStr(Lookup(item.m, <<"content">>))>>
             ELSE <<>>
    ELSE <<PyStr(item)>>

RECURSIVE ListChunks(_, _)
ListChunks(l, strip_think) ==
    IF l = <<>> THEN <<>>
    ELSE ItemChunks(Head(l), strip_think) \o ListChunks(Tail(l), strip_think)

PreferredKeys == << <<"final">>, <<"answer">>, <<"output_text">>, <<"text">>, <<"content">> >>

\* value[k] not in (None, "")
NotNoneOrEmpty(v) == ~(v.t = "null" \/ (v.t = "str" /\ v.s = <<>>))

\* a search that passes over every value Python treats as false
RECURSIVE FirstUsableMutSkipFalsy(_, _)
FirstUsableMutSkipFalsy(m, keys) ==
    IF keys = <<>> THEN NoError
    ELSE IF HasKey(m, Head(keys)) /\ ~Falsy(Lookup(m, Head(keys)))
    THEN [set |-> TRUE, k |-> Head(keys)]
    ELSE FirstUsableMutSkipFalsy(m, Tail(keys))

\* the first of keys that is in m with a value other than None and ""
RECURSIVE FirstUsable(_, _)
FirstUsable(m, keys) ==
    IF keys = <<>> THEN NoError
    ELSE IF HasKey(m, Head(keys)) /\ NotNoneOrEmpty(Lookup(m, Head(keys)))
    THEN [set |-> TRUE, k |-> Head(keys)]
    ELSE FirstUsable(m, Tail(keys))

\* a normalization that never trims
RECURSIVE NormalizeToTextMutNoTrim(_, _)
NormalizeToTextMutNoTrim(v, strip_think) ==
    IF v.t = "list"
    THEN StrJoin(NonEmpty(ListChunks(v.l, strip_think)), <<"\n">>)
    ELSE IF v.t = "map"
    THEN LET first == FirstUsable(v.m, PreferredKeys)
         IN  IF first.set THEN NormalizeToTextMutNoTrim(Lookup(v.m, first.k), strip_think)
             ELSE IF HasKey(v.m, <<"message">>) /\ NotNoneOrEmpty(Lookup(v.m, <<"message">>))
             THEN NormalizeToTextMutNoTrim(Lookup(v.m, <<"message">>), strip_think)
             ELSE JsonDumps(v)
    ELSE PyStr(v)

RECURSIVE NormalizeToText(_, _)
NormalizeToText(v, strip_think) ==
    IF v.t = "list"
    THEN StrStrip(StrJoin(NonEmpty(ListChunks(v.l, strip_think)), <<"\n">>))
    ELSE IF v.t = "map"
    THEN LET first == FirstUsable(v.m, PreferredKeys)
         IN  IF first.set THEN NormalizeToText(Lookup(v.m, first.k), strip_think)
             ELSE IF HasKey(v.m, <<"message">>) /\ NotNoneOrEmpty(Lookup(v.m, <<"message">>))
             THEN NormalizeToText(Lookup(v.m, <<"message">>), strip_think)
             ELSE JsonDumps(v)
    ELSE StrStrip(PyStr(v))
-----------------------------------------------------------------------------
(* call_cloud_api._strip_think_blocks *)

(***************************************************************************)
(* The three span patterns, on chunks.  The texts analysed are built from  *)
(* chunks in which "<" and the backtick occur only as the chunk "<", as    *)
(* the chunk of three backticks that opens or closes a fence, and as       *)
(* the first character of a complete tag chunk, so an opening tag is one   *)
(* of the chunkings listed here and nothing else.  re.IGNORECASE compares  *)
(* the lower-cased text.                                                   *)
(***************************************************************************)
\* The chunk of three backticks.  A TLA+ string cannot hold a backtick, so
\* the chunk is written with the name it has here.
Fence == "[three backticks]"

OpenChunkings(kind) ==
    CASE kind = "think" -> { <<"<think>">>, <<"<", "think>">> }
      [] kind = "reasoning" -> { <<"<reasoning>">>, <<"<", "reasoning>">> }
      [] kind = "fence" -> { <<Fence>> }

CloseChunkings(kind) ==
    CASE kind = "think" -> { <<"</think>">> }
      [] kind = "reasoning" -> { <<"</reasoning>">> }
      [] kind = "fence" -> { <<Fence>> }

\* chunks whose text begins with think, thinking or reasoning: what may
\* follow the three backticks in the opening of a fenced block
FenceTagged(c) ==
    LowerSym(c) \in {"think", "thinking", "reasoning", "think>", "reasoning>"}

\* the number of chunks the opening pattern matches at i, 0 if it does not.
\* The fence's language tag may end inside the chunk after the fence: that chunk
\* is then the beginning of [\s\S]*?.
OpenLen(kind, s, i) ==
    LET low  == StrLower(s)
        hits == {p \in OpenChunkings(kind) : MatchAt(low, i, p)}
    IN  IF hits = {} THEN 0
        ELSE IF kind = "fence"
        THEN IF i + 1 <= Len(s) /\ FenceTagged(s[i + 1]) THEN 2 ELSE 0
        ELSE Len(CHOOSE p \in hits : TRUE)

CloseLen(kind, s, j) ==
    LET low  == StrLower(s)
        hits == {p \in CloseChunkings(kind) : MatchAt(low, j, p)}
    IN  IF hits = {} THEN 0 ELSE Len(CHOOSE p \in hits : TRUE)

\* where the leftmost match of open [\s\S]*? close that starts at i ends
\* (the index after its last chunk), 0 when none starts at i: the lazy
\* middle stops at the first closing tag after the opening one.
SpanEnd(kind, s, i) ==
    LET n      == OpenLen(kind, s, i)
        closes == IF n = 0 THEN {}
                  ELSE {j \in (i + n)..Len(s) : CloseLen(kind, s, j) > 0}
    IN  IF closes = {} THEN 0
        ELSE LET j == CHOOSE k \in closes : \A k2 \in closes : k <= k2
             IN  j + CloseLen(kind, s, j)

\* re.sub(pattern, "", out): one scan from the left; the text after a
\* removed span is scanned on, the text before it is not scanned again.
RECURSIVE RemoveSpansFrom(_, _, _)
RemoveSpansFrom(kind, s, i) ==
    IF i > Len(s) THEN <<>>
    ELSE LET e == SpanEnd(kind, s, i)
         IN  IF e > 0 THEN RemoveSpansFrom(kind, s, e)
             ELSE <<s[i]>> \o RemoveSpansFrom(kind, s, i + 1)

RemoveSpans(kind, s) == RemoveSpansFrom(kind, s, 1)

(***************************************************************************)
(* (?im)^\s*(reasoning|thought|thinking)\s*:\s*.*$                         *)
(***************************************************************************)
ReasoningWords == {"reasoning", "thought", "thinking"}

\* ^ under re.MULTILINE
LineStart(s, i) == i = 1 \/ s[i - 1] = "\n"

\* the index after a greedy \s* that starts at i (\s matches newlines too)
RECURSIVE SkipSpace(_, _)
SkipSpace(s, i) ==
    IF i <= Len(s) /\ IsSpace(s[i]) THEN SkipSpace(s, i + 1) ELSE i

\* the index after a greedy .* that starts at i (. matches all but newline)
RECURSIVE SkipLine(_, _)
SkipLine(s, i) ==
    IF i <= Len(s) /\ s[i] # "\n" THEN SkipLine(s, i + 1) ELSE i

\* where the match that starts at i ends, 0 when none starts at i
LineMatchEnd(s, i) ==
    IF ~LineStart(s, i) THEN 0
    ELSE LET w == SkipSpace(s, i)
         IN  IF ~(w <= Len(s) /\ LowerSym(s[w]) \in ReasoningWords) THEN 0
             ELSE LET c == SkipSpace(s, w + 1)
                  IN  IF ~(c <= Len(s) /\ s[c] = ":") THEN 0
                      ELSE SkipLine(s, SkipSpace(s, c + 1))

RECURSIVE RemoveReasoningLinesFrom(_, _)
RemoveReasoningLinesFrom(s, i) ==
    IF i > Len(s) THEN <<>>
    ELSE LET e == LineMatchEnd(s, i)
         IN  IF e > 0 THEN RemoveReasoningLinesFrom(s, e)
             ELSE <<s[i]>> \o RemoveReasoningLinesFrom(s, i + 1)

RemoveReasoningLines(s) == RemoveReasoningLinesFrom(s, 1)

\* re.sub(r"\n{3,}", "\n\n", out)
RECURSIVE RunOfNewlines(_, _)
RunOfNewlines(s, i) ==
    IF i <= Len(s) /\ s[i] = "\n" THEN 1 + RunOfNewlines(s, i + 1) ELSE 0

RECURSIVE CollapseFrom(_, _)
CollapseFrom(s, i) ==
    IF i > Len(s) THEN <<>>
    ELSE LET n == RunOfNewlines(s, i)
         IN  IF n >= 3 THEN <<"\n", "\n">> \o CollapseFrom(s, i + n)
             ELSE <<s[i]>> \o CollapseFrom(s, i + 1)

CollapseBlankLines(s) == CollapseFrom(s, 1)

StripThinkBlocks(t) ==
    LET p1 == RemoveSpans("think", t)
        p2 == RemoveSpans("reasoning", p1)
        p3 == RemoveSpans("fence", p2)
        p4 == RemoveReasoningLines(p3)
    IN  StrStrip(CollapseBlankLines(p4))
-----------------------------------------------------------------------------
(* call_cloud_api: one invocation, stage by stage.                         *)
(* pc: Idle -> Building -> Sending -> Decoding -> Extracting ->            *)
(*     Normalizing -> Stripping -> Done, or Failed from any stage.         *)

NotYet == [ok |-> FALSE, kind |-> "pending", detail |-> <<>>]
NoConf == [set |-> FALSE]

\* main is not running: no file is looked at and there is no exit status;
\* no other invocation is under way
NoRun == fs = [set |-> FALSE] /\ exit_code = [set |-> FALSE] /\ parked = <<>>

\* the inputs of one invocation: environments that vary the payload, the
\* response paths and stripping, and environments that vary the URL, the
\* timeout and the headers
ExtractionEnvs ==
    [ REPORT_API_URL : {Unset, Set(<<"https://api.example.com/generate">>)},
      REPORT_API_KEY : {Unset, Set(<<"k">>)},
      REPORT_API_MODEL : {Unset, Set(<<"m1">>), Set(<<" ">>)},
      REPORT_API_TIMEOUT : {Unset},
      REPORT_API_RESPONSE_PATHS :
          {Unset, Set(<<>>), Set(<<"data", ".", "text">>), Set(<<"text", ",", "text">>),
           Set(<<" ", "text", " ", ",", "foo">>), Set(<<",">>)},
      REPORT_API_RESPONSE_PATH : {Unset, Set(<<"data", ".", "text">>)},
      REPORT_API_AUTH_HEADER : {Unset},
      REPORT_API_AUTH_SCHEME : {Unset},
      REPORT_API_EXTRA_HEADERS_JSON : {Unset},
      REPORT_API_REQUEST_TEMPLATE_JSON : {Unset, Set(<<TemplateText>>), Set(<<"{", "oops">>)},
      REPORT_STRIP_THINK : {Unset, Set(<<"false">>), Set(<<"ON">>)} ]

HeaderEnvs ==
    [ REPORT_API_URL : {Unset, Set(<<>>), Set(<<"https://api.example.com/generate">>)},
      REPORT_API_KEY : {Unset, Set(<<"k">>)},
      REPORT_API_MODEL : {Unset},
      REPORT_API_TIMEOUT : {Unset, Set(<<"5">>), Set(<<"a", "b", "c">>)},
      REPORT_API_RESPONSE_PATHS : {Unset},
      REPORT_API_RESPONSE_PATH : {Unset},
      REPORT_API_AUTH_HEADER : {Unset, Set(<<"X-Api-Key">>), Set(<<"Content-Type">>)},
      REPORT_API_AUTH_SCHEME : {Unset, Set(<<>>), Set(<<"Token">>)},
      REPORT_API_EXTRA_HEADERS_JSON :
          {Unset, Set(<<HeadersText>>), Set(<<"{", "oops">>), Set(<<"[1]">>)},
      REPORT_API_REQUEST_TEMPLATE_JSON : {Unset, Set(<<"{", "oops">>)},
      REPORT_STRIP_THINK : {Unset} ]

Envs == ExtractionEnvs \cup HeaderEnvs

\* a run of 499 characters that holds no JSON, kept as one chunk
Filler == "x * 499"

\* what urlopen and the reads of the response do: a 2xx response with a body,
\* a 2xx response whose bytes are not UTF-8, a non-2xx response whose body can
\* or cannot be read, a URLError, a timeout after the request was sent, a
\* connection closed before the whole body arrived
ExtractionReplies ==
    {[kind |-> "ok", body |-> <<d>>] : d \in DOMAIN ReplyDocs}
    \cup {[kind |-> "ok", body |-> <<"oops">>],
          [kind |-> "http_error", code |-> <<"5", "0", "0">>, body |-> <<"oops">>],
          [kind |-> "url_error", reason |-> <<"timed out">>]}

TransportReplies ==
    {[kind |-> "ok", body |-> <<"{\"choices\":[{\"message\":{\"content\":\"Hello\"}}]}">>],
     [kind |-> "ok", body |-> <<"oops">>],
     [kind |-> "ok", body |-> <<Filler, "a">>],
     [kind |-> "ok", body |-> <<Filler, "a", "b">>],
     [kind |-> "ok_undecodable", bytes |-> <<"\\xff", "\\xfe">>],
     [kind |-> "http_error", code |-> <<"5", "0", "0">>, body |-> <<"oops">>],
     [kind |-> "http_error", code |-> <<"4", "0", "4">>, body |-> <<>>],
     [kind |-> "http_error_unreadable", code |-> <<"5", "0", "0">>,
      str |-> <<"HTTP Error 500: Internal Server Error">>],
     [kind |-> "url_error", reason |-> <<"timed out">>],
     [kind |-> "url_error", reason |-> <<"[Errno 111] Connection refused">>],
     [kind |-> "timeout", reason |-> <<"timed out">>],
     [kind |-> "incomplete_read", reason |-> <<"IncompleteRead(2 bytes read, 8 more expected)">>]}

Replies == ExtractionReplies \cup TransportReplies

Init ==
    /\ pc = "Idle"
    /\ args \in [env : ExtractionEnvs, user_prompt : {<<"u">>}, system_prompt : {<<"s">>},
                 reply : ExtractionReplies]
                \cup [env : HeaderEnvs, user_prompt : {<<"u">>}, system_prompt : {<<"s">>},
                      reply : TransportReplies]
    /\ ret = NotYet
    /\ conf = NoConf
    /\ payload = JNull
    /\ headers = <<>>
    /\ sent = <<>>
    /\ raw = <<>>
    /\ result = JNull
    /\ value = JNull
    /\ text = <<>>
    /\ NoRun

\* raise: the invocation ends with the exception e
Fail(e) == pc' = "Failed" /\ ret' = e

\* lines 102-128: the settings, read in the order of the code
StripThinkOn(s) == StrLower(s) \in {<<"1">>, <<"true">>, <<"yes">>, <<"on">>}

ResponsePathsCsv(env) ==
    LET response_paths_csv ==
            StrStrip(Getenv(env, "REPORT_API_RESPONSE_PATHS", Set(<<>>), FALSE).val)
        legacy_response_path ==
            StrStrip(Getenv(env, "REPORT_API_RESPONSE_PATH",
                            Set(<<"choices", ".", "0", ".", "message", ".", "content">>),
                            FALSE).val)
    IN  IF response_paths_csv = <<>> THEN legacy_response_path ELSE response_paths_csv

Configure ==
    /\ pc = "Idle"
    /\ LET env     == args.env
           api_url == Getenv(env, "REPORT_API_URL", Unset, TRUE)
           timeout == IntParse(Getenv(env, "REPORT_API_TIMEOUT", Set(<<"1", "2", "0">>), FALSE).val)
       IN  IF ~api_url.ok THEN Fail(api_url) /\ UNCHANGED conf
           ELSE IF ~timeout.ok THEN Fail(timeout) /\ UNCHANGED conf
           ELSE /\ conf' =
                     [ set |-> TRUE,
                       api_url |-> api_url.val,
                       api_key |-> Getenv(env, "REPORT_API_KEY", Set(<<>>), FALSE).val,
                       api_model |-> Getenv(env, "REPORT_API_MODEL", Set(<<>>), FALSE).val,
                       timeout |-> timeout.val,
                       response_paths_csv |-> ResponsePathsCsv(env),
                       auth_header |-> Getenv(env, "REPORT_API_AUTH_HEADER", Set(<<"Authorization">>), FALSE).val,
                       auth_scheme |-> Getenv(env, "REPORT_API_AUTH_SCHEME", Set(<<"Bearer">>), FALSE).val,
                       extra_headers_json |-> Getenv(env, "REPORT_API_EXTRA_HEADERS_JSON", Set(<<>>), FALSE).val,
                       request_template_json |-> Getenv(env, "REPORT_API_REQUEST_TEMPLATE_JSON", Set(<<>>), FALSE).val,
                       strip_think |-> StripThinkOn(Getenv(env, "REPORT_STRIP_THINK", Set(<<"true">>), FALSE).val) ]
                /\ pc' = "Building"
                /\ UNCHANGED ret
    /\ UNCHANGED <<args, payload, headers, sent, raw, result, value, text, fs, exit_code, parked>>

\* lines 220-233: the request body
Mapping(c, system_prompt, user_prompt) ==
    <<Item(<<"model">>, c.api_model),
      Item(<<"system_prompt">>, system_prompt),
      Item(<<"user_prompt">>, user_prompt)>>

\* the payload with the default body used when the template is not JSON
BuildPayloadMutDefaultOnBadTemplate(c, system_prompt, user_prompt) ==
    IF StrStrip(c.request_template_json) # <<>> /\ JsonLoads(c.request_template_json).ok
    THEN Return(ReplacePlaceholders(JsonLoads(c.request_template_json).val,
                                    Mapping(c, system_prompt, user_prompt)))
    ELSE Return(BuildDefaultPayload(c.api_model, system_prompt, user_prompt))

BuildPayload(c, system_prompt, user_prompt) ==
    IF StrStrip(c.request_template_json) # <<>>
    THEN LET template == JsonLoads(c.request_template_json)
         IN  IF ~template.ok
             THEN Raise("Invalid REPORT_API_REQUEST_TEMPLATE_JSON", template)
             ELSE Return(ReplacePlaceholders(template.val,
                                             Mapping(c, system_prompt, user_prompt)))
    ELSE Return(BuildDefaultPayload(c.api_model, system_prompt, user_prompt))

\* d[k] = v on a dict kept as its items in insertion order
DictSet(m, k, v) ==
    IF HasKey(m, k)
    THEN [i \in 1..Len(m) |-> IF m[i].k = k THEN Item(k, v) ELSE m[i]]
    ELSE Append(m, Item(k, v))

RECURSIVE DictUpdate(_, _)
DictUpdate(m, other) ==
    IF other = <<>> THEN m
    ELSE DictUpdate(DictSet(m, Head(other).k, Head(other).v), Tail(other))

\* the headers with the extra headers merged before the auth header is set
BuildHeadersMutExtraFirst(c) ==
    LET base   == <<Item(<<"Content-Type">>, JStr(<<"application/json">>))>>
        merged == IF StrStrip(c.extra_headers_json) # <<>>
                     /\ JsonLoads(c.extra_headers_json).ok
                     /\ JsonLoads(c.extra_headers_json).val.t = "map"
                  THEN DictUpdate(base, JsonLoads(c.extra_headers_json).val.m) ELSE base
    IN  Return(IF c.api_key # <<>>
               THEN DictSet(merged, c.auth_header,
                            JStr(StrStrip(c.auth_scheme \o <<" ">> \o c.api_key)))
               ELSE merged)

\* lines 235-244: the request headers
BuildHeaders(c) ==
    LET base   == <<Item(<<"Content-Type">>, JStr(<<"application/json">>))>>
        token_val == IF c.auth_scheme # <<>>
                     THEN StrStrip(c.auth_scheme \o <<" ">> \o c.api_key)
                     ELSE c.api_key
        authed == IF c.api_key # <<>>
                  THEN DictSet(base, c.auth_header, JStr(token_val)) ELSE base
    IN  IF StrStrip(c.extra_headers_json) # <<>>
        THEN LET extra == JsonLoads(c.extra_headers_json)
             IN  IF ~extra.ok THEN Raise("Invalid REPORT_API_EXTRA_HEADERS_JSON", extra)
                 ELSE IF extra.val.t = "map" THEN Return(DictUpdate(authed, extra.val.m))
                 ELSE IF extra.val.t = "list" /\ extra.val.l = <<>> THEN Return(authed)
                 ELSE Raise("TypeError", extra.val)
        ELSE Return(authed)

Build ==
    /\ pc = "Building"
    /\ LET p == BuildPayload(conf, args.system_prompt, args.user_prompt)
           h == BuildHeaders(conf)
       IN  IF ~p.ok THEN Fail(p) /\ UNCHANGED <<payload, headers>>
           ELSE IF ~h.ok THEN Fail(h) /\ payload' = p.val /\ UNCHANGED headers
           ELSE /\ payload' = p.val
                /\ headers' = h.val
                /\ pc' = "Sending"
                /\ UNCHANGED ret
    /\ UNCHANGED <<args, conf, sent, raw, result, value, text, fs, exit_code, parked>>

\* the request issued once more after a URLError
SendMutRetry ==
    /\ pc = "Sending"
    /\ sent' = Append(sent, [url |-> conf.api_url, method |-> "POST", data |-> payload,
                             headers |-> headers, timeout |-> conf.timeout])
    /\ IF args.reply.kind = "ok"
       THEN raw' = args.reply.body /\ pc' = "Decoding" /\ UNCHANGED ret
       ELSE IF args.reply.kind = "url_error" /\ sent = <<>>
       THEN UNCHANGED <<pc, ret, raw>>
       ELSE Fail(Raise("Cloud API request failed", <<>>)) /\ UNCHANGED raw
    /\ UNCHANGED <<args, conf, payload, headers, result, value, text, fs, exit_code, parked>>

\* lines 246-264: the one urlopen call and what comes back
Send ==
    /\ pc = "Sending"
    /\ sent' = Append(sent, [url |-> conf.api_url, method |-> "POST", data |-> payload,
                             headers |-> headers, timeout |-> conf.timeout])
    /\ CASE args.reply.kind = "ok" ->
              raw' = args.reply.body /\ pc' = "Decoding" /\ UNCHANGED ret
         [] args.reply.kind = "http_error" ->
              /\ Fail(Raise("Cloud API HTTP",
                            [code |-> args.reply.code, detail |-> args.reply.body]))
              /\ UNCHANGED raw
         [] args.reply.kind = "http_error_unreadable" ->
              /\ Fail(Raise("Cloud API HTTP",
                            [code |-> args.reply.code, detail |-> args.reply.str]))
              /\ UNCHANGED raw
         [] args.reply.kind = "url_error" ->
              /\ Fail(Raise("Cloud API request failed", args.reply.reason))
              /\ UNCHANGED raw
         [] args.reply.kind = "ok_undecodable" ->
              /\ Fail(Raise("UnicodeDecodeError", args.reply.bytes))
              /\ UNCHANGED raw
         [] args.reply.kind = "timeout" ->
              /\ Fail(Raise("TimeoutError", args.reply.reason))
              /\ UNCHANGED raw
         [] args.reply.kind = "incomplete_read" ->
              /\ Fail(Raise("IncompleteRead", args.reply.reason))
              /\ UNCHANGED raw
    /\ UNCHANGED <<args, conf, payload, headers, result, value, text, fs, exit_code, parked>>

\* raw[:500], on a text kept in chunks: the chunks that lie within the first
\* n characters
RawPrefixLen == 500
CharLen(c) == CASE c = Filler -> 499 [] c = "oops" -> 4 [] OTHER -> 1

RECURSIVE Prefix(_, _)
Prefix(s, n) ==
    IF s = <<>> \/ CharLen(Head(s)) > n THEN <<>>
    ELSE <<Head(s)>> \o Prefix(Tail(s), n - CharLen(Head(s)))

\* lines 266-269
Decode ==
    /\ pc = "Decoding"
    /\ LET decoded == JsonLoads(raw)
       IN  IF decoded.ok
           THEN result' = decoded.val /\ pc' = "Extracting" /\ UNCHANGED ret
           ELSE /\ Fail(Raise("Cloud API returned non-JSON response",
                              Prefix(raw, RawPrefixLen)))
                /\ UNCHANGED result
    /\ UNCHANGED <<args, conf, payload, headers, sent, raw, value, text, fs, exit_code, parked>>

\* line 271
Extract ==
    /\ pc = "Extracting"
    /\ LET got == ExtractFirstAvailable(result, conf.response_paths_csv)
       IN  IF got.ok
           THEN value' = got.val /\ pc' = "Normalizing" /\ UNCHANGED ret
           ELSE Fail(got) /\ UNCHANGED value
    /\ UNCHANGED <<args, conf, payload, headers, sent, raw, result, text, fs, exit_code, parked>>

\* line 272
Normalize ==
    /\ pc = "Normalizing"
    /\ text' = NormalizeToText(value, conf.strip_think)
    /\ pc' = "Stripping"
    /\ UNCHANGED <<args, ret, conf, payload, headers, sent, raw, result, value, fs, exit_code, parked>>

\* a return without the check for an empty text
FinishMutNoEmptyCheck(t) == Return(t)

\* lines 277-279: if not text: raise; return text
Finish(t) ==
    IF t = <<>> THEN Raise("Cloud API returned empty content after filtering.", <<>>)
    ELSE Return(t)

\* lines 274-279
Strip ==
    /\ pc = "Stripping"
    /\ text' = IF conf.strip_think THEN StripThinkBlocks(text) ELSE text
    /\ ret' = Finish(text')
    /\ pc' = IF ret'.ok THEN "Done" ELSE "Failed"
    /\ UNCHANGED <<args, conf, payload, headers, sent, raw, result, value, fs, exit_code, parked>>

Next == Configure \/ Build \/ Send \/ Decode \/ Extract \/ Normalize \/ Strip

Spec == Init /\ [][Next]_vars
-----------------------------------------------------------------------------
(* The helper functions analysed one call at a time.  The variables of     *)
(* call_cloud_api stay as they are before an invocation.                   *)

NoInvocation ==
    /\ conf = NoConf
    /\ payload = JNull
    /\ headers = <<>>
    /\ sent = <<>>
    /\ raw = <<>>
    /\ result = JNull
    /\ value = JNull
    /\ NoRun

\* the sequences over S of length at most n
SeqsUpTo(S, n) == UNION {[1..k -> S] : k \in 0..n}

(* extract_by_path: SpecPath *)

PathAlphabet == {"a", "b", "0", "1", "-", "."}

\* the paths tried: every text of at most n chunks
PathInputs(n) == SeqsUpTo(PathAlphabet, n)

DataInputs ==
    { JMap(<<Item(<<"a">>, JList(<<JMap(<<Item(<<"b">>, JNum(<<"1">>))>>)>>))>>),
      JMap(<<Item(<<"a">>, JNum(<<"1">>))>>),
      JMap(<<Item(<<"a">>, JNull), Item(<<>>, JStr(<<"b">>))>>),
      JList(<<JNum(<<"1">>), JStr(<<"a">>)>>),
      JList(<<>>),
      JStr(<<"a">>),
      JNum(<<"1">>),
      JBool(TRUE),
      JNull }

InitPath ==
    /\ pc = "call"
    /\ args \in [data : DataInputs, path : PathInputs(MaxPathLen)]
    /\ ret = NotYet
    /\ text = <<>>
    /\ NoInvocation

CallExtractByPath ==
    /\ pc = "call"
    /\ ret' = ExtractByPath(args.data, args.path)
    /\ pc' = "done"
    /\ UNCHANGED <<args, conf, payload, headers, sent, raw, result, value, text, fs, exit_code, parked>>

NextPath == CallExtractByPath

SpecPath == InitPath /\ [][NextPath]_vars

(* _strip_think_blocks, applied once and then again to its result: SpecStrip *)

TagAlphabet ==
    {"<", "think>", "</think>", "</THINK>", "<reasoning>", "</reasoning>", "x", "Hello", "\n"}

LineAlphabet == {"Thought", "reasoning", ":", Fence, "think", "Hello", " ", "\n"}

\* the texts stripped: every text of at most n chunks of either alphabet
StripInputs(n) == SeqsUpTo(TagAlphabet, n) \cup SeqsUpTo(LineAlphabet, n)

InitStrip ==
    /\ pc = "call"
    /\ args \in [text : StripInputs(MaxTextLen)]
    /\ ret = NotYet
    /\ text = <<>>
    /\ NoInvocation

CallStripThinkBlocks ==
    /\ pc = "call"
    /\ ret' = Return(StripThinkBlocks(args.text))
    /\ pc' = "once"
    /\ UNCHANGED <<args, conf, payload, headers, sent, raw, result, value, text, fs, exit_code, parked>>

CallStripThinkBlocksAgain ==
    /\ pc = "once"
    /\ text' = StripThinkBlocks(ret.val)
    /\ pc' = "twice"
    /\ UNCHANGED <<args, ret, conf, payload, headers, sent, raw, result, value, fs, exit_code, parked>>

NextStrip == CallStripThinkBlocks \/ CallStripThinkBlocksAgain

SpecStrip == InitStrip /\ [][NextStrip]_vars

(* replace_placeholders: SpecRender *)

TemplateAlphabet == {"{{", "}}", "x", "y", "a"}

TemplateStrings(n) == SeqsUpTo(TemplateAlphabet, n)

One == JNum(<<"1">>)

Templates(n) ==
    {JStr(s) : s \in TemplateStrings(n)}
    \cup {JMap(<<Item(<<"a">>, JStr(s)),
                 Item(<<"b">>, JList(<<JStr(<<"{{", "y", "}}">>), One>>))>>) :
             s \in TemplateStrings(n)}
    \cup {JList(<<JMap(<<Item(<<"c">>, JStr(s))>>), JNull, JBool(FALSE)>>) :
             s \in TemplateStrings(n)}
    \cup {One, JNull, JBool(TRUE)}

Bindings ==
    {<<Item(<<"x">>, vx), Item(<<"y">>, vy)>> :
        vx \in {<<"1">>, <<"{{", "y", "}}">>}, vy \in {<<"2">>, <<"{{", "x", "}}">>}}
    \cup {<<Item(<<"x">>, vx)>> : vx \in {<<"1">>, <<>>}}

InitRender ==
    /\ pc = "call"
    /\ args \in [template : Templates(MaxTemplateLen), mapping : Bindings]
    /\ ret = NotYet
    /\ text = <<>>
    /\ NoInvocation

CallReplacePlaceholders ==
    /\ pc = "call"
    /\ ret' = Return(ReplacePlaceholders(args.template, args.mapping))
    /\ pc' = "done"
    /\ UNCHANGED <<args, conf, payload, headers, sent, raw, result, value, text, fs, exit_code, parked>>

NextRender == CallReplacePlaceholders

SpecRender == InitRender /\ [][NextRender]_vars
(* _normalize_to_text: SpecNorm *)

\* the fields an element of a content list may have
TypeFields ==
    {<<>>} \cup {<<Item(<<"type">>, JStr(<<t>>))>> : t \in {"reasoning", "Thinking", "text"}}
TextFields ==
    {<<>>} \cup {<<Item(<<"text">>, v)>> : v \in {JStr(<<"t">>), JNull, JNum(<<"0">>)}}
ContentField == <<Item(<<"content">>, JStr(<<"c">>))>>

\* the elements: mappings of every type with every text, with a content where
\* there is no text and on one that has a text, and elements that are no mapping
ItemInputs ==
    {JMap(ty \o tx) : ty \in TypeFields, tx \in TextFields}
    \cup {JMap(ty \o ContentField) : ty \in TypeFields}
    \cup {JMap(<<Item(<<"type">>, JStr(<<"text">>)), Item(<<"text">>, JStr(<<"t">>))>>
               \o ContentField)}
    \cup {JStr(<<"s">>), JStr(<<" ">>), JNum(<<"1">>), JNull}

\* the content lists normalized: every list of at most n elements
ListInputs(n) == {JList(l) : l \in SeqsUpTo(ItemInputs, n)}

\* what a field of a mapping may be: absent, null, "" or a text
FieldChoices == {"absent", "null", "empty", "text"}

FieldValue(choice, k) ==
    CASE choice = "null" -> JNull
      [] choice = "empty" -> JStr(<<>>)
      [] choice = "text" -> JStr(<<k>>)

\* the mapping that has keys[i] as f[i] says, from the i-th key on
RECURSIVE FieldsFrom(_, _, _)
FieldsFrom(f, keys, i) ==
    IF i > Len(keys) THEN <<>>
    ELSE (IF f[i] = "absent" THEN <<>> ELSE <<Item(<<keys[i]>>, FieldValue(f[i], keys[i]))>>)
         \o FieldsFrom(f, keys, i + 1)

Reversed(s) == [i \in 1..Len(s) |-> s[Len(s) + 1 - i]]

MapKeys == <<"final", "answer", "output_text", "text", "content", "message">>

\* the mappings normalized: each of the keys absent or present, in the order
\* of keys and in the reverse order, and some nested ones
MapInputs(keys) ==
    LET flat == {FieldsFrom(f, keys, 1) : f \in [1..Len(keys) -> FieldChoices]}
    IN  {JMap(m) : m \in flat} \cup {JMap(Reversed(m)) : m \in flat}
        \cup {JMap(<<Item(<<"message">>, JMap(<<Item(<<"content">>, JStr(<<" ", "n">>))>>)),
                     Item(<<"foo">>, JNum(<<"1">>))>>),
              JMap(<<Item(<<"final">>, JList(<<JStr(<<"s">>), JNum(<<"1">>)>>)),
                     Item(<<"content">>, JStr(<<"c">>))>>),
              JMap(<<Item(<<"final">>, JList(<<>>)), Item(<<"content">>, JStr(<<"c">>))>>),
              JMap(<<Item(<<"text">>, JNum(<<"0">>)), Item(<<"message">>, JStr(<<"m">>))>>),
              JMap(<<Item(<<"message">>, JMap(<<>>)), Item(<<"foo">>, JBool(FALSE))>>),
              JMap(<<Item(<<"foo">>, JStr(<<"a", "\n">>))>>)}

ScalarInputs == {JStr(<<" ", "s", "\n">>), JStr(<<>>), JNum(<<"1">>), JBool(TRUE), JNull}

NormInputs(n) == ListInputs(n) \cup MapInputs(MapKeys) \cup ScalarInputs

InitNorm ==
    /\ pc = "call"
    /\ args \in [value : NormInputs(MaxItems), strip_think : BOOLEAN]
    /\ ret = NotYet
    /\ text = <<>>
    /\ NoInvocation

CallNormalizeToText ==
    /\ pc = "call"
    /\ ret' = Return(NormalizeToText(args.value, args.strip_think))
    /\ pc' = "done"
    /\ UNCHANGED <<args, conf, payload, headers, sent, raw, result, value, text, fs, exit_code, parked>>

NextNorm == CallNormalizeToText

SpecNorm == InitNorm /\ [][NextNorm]_vars

-----------------------------------------------------------------------------
(* getenv, called on its own: the variable is unset or holds a text, the   *)
(* default is None or a text, required is either.                          *)

InitEnv ==
    /\ pc = "call"
    /\ LET values == {Unset} \cup {Set(s) : s \in SeqsUpTo({" ", "v"}, MaxEnvLen)}
       IN  args \in [name : {"REPORT_API_URL"}, value : values, default : values,
                     required : BOOLEAN]
    /\ ret = NotYet
    /\ text = <<>>
    /\ NoInvocation

CallGetenv ==
    /\ pc = "call"
    /\ ret' = Getenv((args.name :> args.value), args.name, args.default, args.required)
    /\ pc' = "done"
    /\ UNCHANGED <<args, conf, payload, headers, sent, raw, result, value, text,
                   fs, exit_code, parked>>

SpecEnv == InitEnv /\ [][CallGetenv]_vars

-----------------------------------------------------------------------------
(* ensure_minimum_sections.  A text is kept in chunks: a hash, a blank and *)
(* a newline are chunks of one character, a section title and a            *)
(* placeholder line are one chunk each, so that "sec in text" is the       *)
(* occurrence of the chunks of sec in the chunks of text.                  *)

\* lines 299-307
RequiredSections ==
    << <<"#", "#", " ", "What I Did Today">>,
       <<"#", "#", " ", "Problems / Blockers">>,
       <<"#", "#", " ", "Root Cause">>,
       <<"#", "#", " ", "Attempts & Fixes">>,
       <<"#", "#", " ", "Key Learnings">>,
       <<"#", "#", " ", "Metrics">>,
       <<"#", "#", " ", "Next Steps (Tomorrow)">> >>

\* sub in s
Contains(s, sub) == \E i \in 1..(Len(s) + 1) : MatchAt(s, i, sub)

\* the fallback with any section present counting as all present
EnsureMinimumSectionsMutAny(t, date_str) ==
    IF \E i \in 1..Len(RequiredSections) : Contains(t, RequiredSections[i])
    THEN t
    ELSE <<"#", " ", "Daily Report - ">> \o date_str \o <<"\n", "\n">>
         \o <<"#", "#", "#", " ", "Raw Model Output", "\n">> \o t \o <<"\n">>

\* a fallback that wraps the text without the seven placeholder sections
EnsureMinimumSectionsMutNoSkeleton(t, date_str) ==
    IF \A i \in 1..Len(RequiredSections) : Contains(t, RequiredSections[i])
    THEN t
    ELSE <<"#", " ", "Daily Report - ">> \o date_str \o <<"\n", "\n">>
         \o <<"---", "\n", "\n">>
         \o <<"#", "#", "#", " ", "Raw Model Output", "\n">> \o t \o <<"\n">>

\* lines 298-339
EnsureMinimumSections(t, date_str) ==
    LET RECURSIVE Skeleton(_)
        Skeleton(i) ==
            IF i > Len(RequiredSections) THEN <<>>
            ELSE RequiredSections[i]
                 \o <<"\n", IF i = Len(RequiredSections) THEN "- [ ] N/A" ELSE "- N/A",
                      "\n", "\n">>
                 \o Skeleton(i + 1)
    IN  IF \A i \in 1..Len(RequiredSections) : Contains(t, RequiredSections[i])
        THEN t
        ELSE <<"#", " ", "Daily Report - ">> \o date_str \o <<"\n", "\n">>
             \o Skeleton(1)
             \o <<"---", "\n", "\n">>
             \o <<"#", "#", "#", " ", "Raw Model Output", "\n">> \o t \o <<"\n">>

\* the texts checked are put together from a shape: some leading text, then
\* a block for each section of a set, titled with one to three hashes, in
\* the required order or in the reverse order
SectionText(shape) ==
    LET RECURSIVE Blocks(_, _)
        Blocks(i, step) ==
            IF i \notin 1..Len(RequiredSections) THEN <<>>
            ELSE (IF i \in shape.present
                  THEN [k \in 1..shape.hashes |-> "#"]
                       \o <<" ", RequiredSections[i][4], "\n", "x", "\n">>
                  ELSE <<>>)
                 \o Blocks(i + step, step)
    IN  shape.lead \o (IF shape.reversed THEN Blocks(Len(RequiredSections), -1)
                       ELSE Blocks(1, 1))

InitSections ==
    /\ pc = "call"
    /\ args \in {[text |-> SectionText(shape), date_str |-> d, shape |-> shape] :
                    shape \in [ present : SUBSET (1..Len(RequiredSections)),
                                hashes : 1..3, reversed : BOOLEAN,
                                lead : SeqsUpTo({"x", "\n", "#"}, MaxLeadLen) ],
                    d \in {<<"2026-02-17">>, <<>>}}
    /\ ret = NotYet
    /\ text = <<>>
    /\ NoInvocation

CallEnsureMinimumSections ==
    /\ pc = "call"
    /\ ret' = Return(EnsureMinimumSections(args.text, args.date_str))
    /\ pc' = "done"
    /\ UNCHANGED <<args, conf, payload, headers, sent, raw, result, value, text,
                   fs, exit_code, parked>>

\* ensure_minimum_sections called on what the first call returned
CallEnsureMinimumSectionsAgain ==
    /\ pc = "done"
    /\ text' = EnsureMinimumSections(ret.val, args.date_str)
    /\ pc' = "twice"
    /\ UNCHANGED <<args, ret, conf, payload, headers, sent, raw, result, value,
                   fs, exit_code, parked>>

SpecSections ==
    InitSections /\ [][CallEnsureMinimumSections \/ CallEnsureMinimumSectionsAgain]_vars

-----------------------------------------------------------------------------
(* main: the command line run.  pc: main -> Idle -> ... -> Done or Failed  *)
(* (call_cloud_api, as above) -> exited.  fs holds what the paths of       *)
(* --input and --output and the parent of --output are; exit_code is the   *)
(* status the process ends with.                                           *)

\* lines 16-32, as one chunk
DefaultSystemPrompt == <<"You are a rigorous technical writing assistant. [...]">>

\* lines 282-295
BuildUserPrompt(raw_notes, source_type, source_id, date_str) ==
    <<"Date: ">> \o date_str \o <<"\n", "Source: ", source_type, ":", source_id, "\n", "\n",
      "Raw notes:", "\n">> \o raw_notes
    \o <<"\n", "\n", "Please generate a structured daily report in Markdown.", "\n",
         "Add a title line at top: '# Daily Report - ">> \o date_str \o <<"'.", "\n",
         "Use the required section order exactly.", "\n",
         "Use bullet lists in each section.", "\n">>

\* the runs: the command line, the environment, the reply of the server and
\* the files there are
InitMain ==
    /\ pc = "main"
    /\ args \in
        [ source_type : {"manual", "bogus"}, source_id : {"local"}, date : {<<"2026-02-17">>},
          env : [ REPORT_API_URL : {Unset, Set(<<"https://api.example.com/generate">>)},
                  REPORT_API_KEY : {Unset}, REPORT_API_MODEL : {Unset},
                  REPORT_API_TIMEOUT : {Unset}, REPORT_API_RESPONSE_PATHS : {Unset},
                  REPORT_API_RESPONSE_PATH : {Unset}, REPORT_API_AUTH_HEADER : {Unset},
                  REPORT_API_AUTH_SCHEME : {Unset}, REPORT_API_EXTRA_HEADERS_JSON : {Unset},
                  REPORT_API_REQUEST_TEMPLATE_JSON : {Unset}, REPORT_STRIP_THINK : {Unset},
                  REPORT_SYSTEM_PROMPT : {Unset, Set(<<>>), Set(<<"p">>)} ],
          reply : {[kind |-> "ok", body |-> <<ReportText>>],
                   [kind |-> "ok", body |-> <<"{\"choices\":[{\"message\":{\"content\":\"Hello\"}}]}">>],
                   [kind |-> "ok", body |-> <<"oops">>],
                   [kind |-> "http_error", code |-> <<"5", "0", "0">>, body |-> <<"oops">>],
                   [kind |-> "timeout", reason |-> <<"timed out">>]},
          files : {[set |-> TRUE, input |-> i, parent |-> o[1], output |-> o[2]] :
                      i \in {[kind |-> "absent"], [kind |-> "dir"],
                             [kind |-> "file", utf8 |-> FALSE, content |-> <<>>],
                             [kind |-> "file", utf8 |-> TRUE, content |-> <<"notes">>]},
                      o \in {<<"absent", [kind |-> "absent"]>>,
                             <<"file", [kind |-> "absent"]>>,
                             <<"dir", [kind |-> "absent"]>>,
                             <<"dir", [kind |-> "dir"]>>,
                             <<"dir", [kind |-> "file", content |-> <<"old">>]>>}} ]
    /\ fs = args.files
    /\ exit_code = [set |-> FALSE]
    /\ parked = <<>>
    /\ ret = NotYet
    /\ conf = NoConf
    /\ payload = JNull
    /\ headers = <<>>
    /\ sent = <<>>
    /\ raw = <<>>
    /\ result = JNull
    /\ value = JNull
    /\ text = <<>>

\* the process ends with status code
Exit(code) == pc' = "exited" /\ exit_code' = [set |-> TRUE, code |-> code]

\* lines 343-365: parse_args ends the process with status 2 on a
\* --source-type outside the choices; a missing input returns 2; an input that
\* cannot be read raises; otherwise call_cloud_api is called with the prompts
MainStart ==
    /\ pc = "main"
    /\ IF args.source_type \notin {"manual", "commit", "issue"}
       THEN Exit(2) /\ UNCHANGED <<args, ret>>
       ELSE IF fs.input.kind = "absent"
       THEN Exit(2) /\ UNCHANGED <<args, ret>>
       ELSE IF fs.input.kind = "dir"
       THEN Exit(1) /\ ret' = Raise("IsADirectoryError", <<>>) /\ UNCHANGED args
       ELSE IF ~fs.input.utf8
       THEN Exit(1) /\ ret' = Raise("UnicodeDecodeError", <<>>) /\ UNCHANGED args
       ELSE /\ args' =
                 [ user_prompt |-> BuildUserPrompt(fs.input.content, args.source_type,
                                                   args.source_id, args.date),
                   system_prompt |-> Getenv(args.env, "REPORT_SYSTEM_PROMPT",
                                            Set(DefaultSystemPrompt), FALSE).val ] @@ args
            /\ pc' = "Idle"
            /\ UNCHANGED <<ret, exit_code>>
    /\ UNCHANGED <<conf, payload, headers, sent, raw, result, value, text, fs, parked>>

\* the report written as it is, with no newline added
MainFinishMutNoNewline ==
    /\ pc = "Done"
    /\ fs.set
    /\ fs' = [fs EXCEPT !.parent = "dir",
                        !.output = [kind |-> "file",
                                    content |-> EnsureMinimumSections(ret.val, args.date)]]
    /\ Exit(0)
    /\ UNCHANGED <<args, ret, conf, payload, headers, sent, raw, result, value, text, parked>>

\* lines 367-373: call_cloud_api returned; mkdir raises when the parent is a
\* file, write_text raises when the output is a directory
MainFinish ==
    /\ pc = "Done"
    /\ fs.set
    /\ LET report  == EnsureMinimumSections(ret.val, args.date)
           content == report \o (IF report # <<>> /\ report[Len(report)] = "\n"
                                 THEN <<>> ELSE <<"\n">>)
       IN  IF fs.parent = "file"
           THEN Exit(1) /\ UNCHANGED fs
           ELSE IF fs.output.kind = "dir"
           THEN Exit(1) /\ fs' = [fs EXCEPT !.parent = "dir"]
           ELSE /\ fs' = [fs EXCEPT !.parent = "dir",
                                   !.output = [kind |-> "file", content |-> content]]
                /\ Exit(0)
    /\ UNCHANGED <<args, ret, conf, payload, headers, sent, raw, result, value, text, parked>>

\* a main that opened the output for writing before the call
MainRaiseMutTruncatesOutput ==
    /\ pc = "Failed"
    /\ fs.set
    /\ fs' = [fs EXCEPT !.output = [kind |-> "file", content |-> <<>>]]
    /\ Exit(1)
    /\ UNCHANGED <<args, ret, conf, payload, headers, sent, raw, result, value, text, parked>>

\* line 366: call_cloud_api raised and nothing catches it
MainRaise ==
    /\ pc = "Failed"
    /\ fs.set
    /\ Exit(1)
    /\ UNCHANGED <<args, ret, conf, payload, headers, sent, raw, result, value, text, fs, parked>>

NextMain ==
    \/ MainStart \/ Configure \/ Build \/ Send \/ Decode \/ Extract \/ Normalize \/ Strip
    \/ MainFinish \/ MainRaise

SpecMain == InitMain /\ [][NextMain]_vars

-----------------------------------------------------------------------------
(* Two invocations of call_cloud_api in one process, on two threads.  The  *)
(* variables above are the local variables of the invocation that is       *)
(* running; parked holds those of the other one.  Both read the same       *)
(* environment; each has its own prompts and gets its own reply.           *)

\* the local variables of the running invocation
Frame ==
    [ pc |-> pc, args |-> args, ret |-> ret, conf |-> conf, payload |-> payload,
      headers |-> headers, sent |-> sent, raw |-> raw, result |-> result,
      value |-> value, text |-> text ]

InitPair ==
    /\ \E env \in [ REPORT_API_URL : {Set(<<"https://api.example.com/generate">>)},
                    REPORT_API_KEY : {Unset}, REPORT_API_MODEL : {Unset},
                    REPORT_API_TIMEOUT : {Unset}, REPORT_API_RESPONSE_PATHS : {Unset},
                    REPORT_API_RESPONSE_PATH : {Unset}, REPORT_API_AUTH_HEADER : {Unset},
                    REPORT_API_AUTH_SCHEME : {Unset}, REPORT_API_EXTRA_HEADERS_JSON : {Unset},
                    REPORT_API_REQUEST_TEMPLATE_JSON : {Unset, Set(<<TemplateText>>)},
                    REPORT_STRIP_THINK : {Unset, Set(<<"false">>)} ] :
       \E r \in [1..2 ->
                   {[kind |-> "ok", body |-> <<"{\"choices\":[{\"message\":{\"content\":\"Hello\"}}]}">>],
                    [kind |-> "ok", body |-> <<"{\"choices\":[{\"message\":{\"content\":\"<think>x</think>Hello\"}}]}">>],
                    [kind |-> "ok", body |-> <<"{\"data\":{\"text\":\"custom-ok\"}}">>],
                    [kind |-> "ok", body |-> <<"oops">>],
                    [kind |-> "http_error", code |-> <<"5", "0", "0">>, body |-> <<"oops">>],
                    [kind |-> "url_error", reason |-> <<"timed out">>]}] :
          /\ args = [env |-> env, user_prompt |-> <<"u1">>, system_prompt |-> <<"s">>,
                     reply |-> r[1]]
          /\ parked =
                << [ pc |-> "Idle",
                     args |-> [env |-> env, user_prompt |-> <<"u2">>,
                               system_prompt |-> <<"s">>, reply |-> r[2]],
                     ret |-> NotYet, conf |-> NoConf, payload |-> JNull, headers |-> <<>>,
                     sent |-> <<>>, raw |-> <<>>, result |-> JNull, value |-> JNull,
                     text |-> <<>> ] >>
    /\ pc = "Idle"
    /\ ret = NotYet
    /\ conf = NoConf
    /\ payload = JNull
    /\ headers = <<>>
    /\ sent = <<>>
    /\ raw = <<>>
    /\ result = JNull
    /\ value = JNull
    /\ text = <<>>
    /\ fs = [set |-> FALSE]
    /\ exit_code = [set |-> FALSE]

\* a thread switch in which the response text is one variable of the module,
\* not a local variable of each invocation
SwitchMutSharedRaw ==
    /\ parked # <<>>
    /\ parked' = <<Frame>>
    /\ pc' = parked[1].pc
    /\ args' = parked[1].args
    /\ ret' = parked[1].ret
    /\ conf' = parked[1].conf
    /\ payload' = parked[1].payload
    /\ headers' = parked[1].headers
    /\ sent' = parked[1].sent
    /\ result' = parked[1].result
    /\ value' = parked[1].value
    /\ text' = parked[1].text
    /\ UNCHANGED <<raw, fs, exit_code>>

\* the other thread runs: every name of lines 99-279 is local to the call, so
\* the running invocation finds its own values and nothing else moves
Switch ==
    /\ parked # <<>>
    /\ parked' = <<Frame>>
    /\ pc' = parked[1].pc
    /\ args' = parked[1].args
    /\ ret' = parked[1].ret
    /\ conf' = parked[1].conf
    /\ payload' = parked[1].payload
    /\ headers' = parked[1].headers
    /\ sent' = parked[1].sent
    /\ raw' = parked[1].raw
    /\ result' = parked[1].result
    /\ value' = parked[1].value
    /\ text' = parked[1].text
    /\ UNCHANGED <<fs, exit_code>>

NextPair ==
    \/ Configure \/ Build \/ Send \/ Decode \/ Extract \/ Normalize \/ Strip \/ Switch

SpecPair == InitPair /\ [][NextPair]_vars

-----------------------------------------------------------------------------
(* Properties of call_cloud_api (Spec) *)

UnableToExtract == "Unable to extract model output from response paths"
EmptyContent == "Cloud API returned empty content after filtering."

\* the candidate paths of the invocation and what each gives on the response
Candidates == CandidatePaths(conf.response_paths_csv)
Resolves(p) == ExtractByPath(result, p).ok

\* the stage Extracting has run and gave a value
Extracted ==
    \/ pc \in {"Normalizing", "Stripping", "Done"}
    \/ pc = "Failed" /\ ret.kind = EmptyContent

\* the stage Extracting has run and raised
ExtractionFailed == pc = "Failed" /\ ret.kind = UnableToExtract

\* C1: the value extracted is the value of the first candidate path, in list
\* order, that resolves on the decoded response; no later path is used while
\* an earlier one resolves, whatever the earlier one resolves to (null, "").
C1_FirstResolvingPathWins ==
    Extracted =>
        \E i \in 1..Len(Candidates) :
            /\ ExtractByPath(result, Candidates[i]) = Return(value)
            /\ \A j \in 1..(i - 1) : ~Resolves(Candidates[j])

\* C1 witness: the first resolving path gave null or an empty value although
\* a later candidate resolves to a non-empty one.
C1_Witness ==
    /\ Extracted
    /\ Falsy(value)
    /\ \E j \in 1..Len(Candidates) :
           /\ Resolves(Candidates[j])
           /\ ~Falsy(ExtractByPath(result, Candidates[j]).val)

\* what the environment configures as response paths: the text of
\* REPORT_API_RESPONSE_PATHS, or when that is unset (absent or blank) the text
\* of REPORT_API_RESPONSE_PATH, or when that is unset too the default
Blank(v) == ~v.set \/ StrStrip(v.s) = <<>>
ConfiguredText ==
    IF ~Blank(args.env.REPORT_API_RESPONSE_PATHS) THEN args.env.REPORT_API_RESPONSE_PATHS.s
    ELSE IF ~Blank(args.env.REPORT_API_RESPONSE_PATH) THEN args.env.REPORT_API_RESPONSE_PATH.s
    ELSE <<"choices", ".", "0", ".", "message", ".", "content">>
Configured == ConfiguredPaths(ConfiguredText)

Occurrences(x, seq) == Cardinality({i \in 1..Len(seq) : seq[i] = x})
FallbackIndex(p) == CHOOSE i \in 1..Len(FallbackPaths) : FallbackPaths[i] = p
IsFallback(p) == InSeq(p, FallbackPaths)

\* the list begins with the configured paths, in configured order
ConfiguredFirst(configured, candidates) ==
    /\ Len(configured) <= Len(candidates)
    /\ SubSeq(candidates, 1, Len(configured)) = configured

\* what follows the configured paths are fallback paths, in their fixed order
FallbacksFollowInOrder(configured, candidates) ==
    \A i \in (Len(configured) + 1)..Len(candidates) :
        /\ IsFallback(candidates[i])
        /\ \A j \in (i + 1)..Len(candidates) :
               FallbackIndex(candidates[i]) < FallbackIndex(candidates[j])

\* C2 as stated: configured paths first, then the fallbacks in order, every
\* fallback path exactly once in the list and never before a configured path.
C2_EveryFallbackExactlyOnce ==
    conf.set =>
        LET configured == Configured
            candidates == Candidates
        IN  /\ ConfiguredFirst(configured, candidates)
            /\ FallbacksFollowInOrder(configured, candidates)
            /\ \A k \in 1..Len(FallbackPaths) :
                   Occurrences(FallbackPaths[k], candidates) = 1
            /\ \A i \in 1..Len(candidates) : \A j \in (i + 1)..Len(candidates) :
                   IsFallback(candidates[i]) => ~(j <= Len(configured))

\* C2 amended: the list is the configured paths in configured order, repeats
\* kept, followed by the fallback paths that are not configured, in their
\* fixed order, each once; a fallback path that is configured occurs only
\* among the configured paths, as often as it was configured.
C2_FallbacksNotConfiguredOnceAfter ==
    conf.set =>
        LET configured == Configured
            candidates == Candidates
        IN  /\ ConfiguredFirst(configured, candidates)
            /\ FallbacksFollowInOrder(configured, candidates)
            /\ \A k \in 1..Len(FallbackPaths) :
                   LET p == FallbackPaths[k]
                   IN  Occurrences(p, candidates) =
                           IF InSeq(p, configured) THEN Occurrences(p, configured) ELSE 1

\* C2 witness: a fallback path is configured twice, so the list is longer
\* than the fallback list
C2_Witness ==
    /\ conf.set
    /\ \E k \in 1..Len(FallbackPaths) : Occurrences(FallbackPaths[k], Configured) = 2
    /\ Len(Candidates) > Len(FallbackPaths)

\* C3: when every candidate path fails to resolve, the invocation fails with
\* the extraction error, which lists every attempted path and carries the
\* error of the last one, and nothing is returned; when some path resolves it
\* does not fail so.
C3_AllPathsFailRaisesExtractionError ==
    /\ ExtractionFailed =>
           /\ \A i \in 1..Len(Candidates) : ~Resolves(Candidates[i])
           /\ ret.detail.paths = Candidates
           /\ ret.detail.last = ExtractByPath(result, Candidates[Len(Candidates)])
           /\ ~ret.ok /\ value = JNull /\ text = <<>>
    /\ Extracted => \E i \in 1..Len(Candidates) : Resolves(Candidates[i])
    /\ pc = "Failed" => ret.kind # "No response paths configured."

\* C3 witness: configured and fallback paths were tried and all failed, the
\* first with another error than the last
C3_Witness ==
    /\ ExtractionFailed
    /\ Len(Configured) >= 1
    /\ ExtractByPath(result, Candidates[1]) # ret.detail.last

\* C4: an invocation that returns, returns the non-empty final text; a text
\* that is empty after normalization and stripping ends in the empty-response
\* error.
C4_NeverReturnsEmpty ==
    /\ pc = "Done" => ret = Return(text) /\ text # <<>>
    /\ (pc = "Failed" /\ ret.kind = EmptyContent) => text = <<>>
    /\ (pc = "Done" \/ (pc = "Failed" /\ ret.kind = EmptyContent)) =>
           text = IF conf.strip_think
                  THEN StripThinkBlocks(NormalizeToText(value, TRUE))
                  ELSE NormalizeToText(value, FALSE)

\* C4 witness: stripping emptied a text that normalization had left non-empty
C4_Witness ==
    /\ pc = "Failed" /\ ret.kind = EmptyContent
    /\ conf.strip_think
    /\ NormalizeToText(value, conf.strip_think) # <<>>

\* the request body has been built, and no template is configured
DefaultPayloadBuilt ==
    /\ pc \in {"Sending", "Decoding", "Extracting", "Normalizing", "Stripping", "Done"}
       \/ (pc = "Failed" /\ sent # <<>>)
    /\ StrStrip(conf.request_template_json) = <<>>

Keys(m) == {m[i].k : i \in 1..Len(m)}

\* C10: without a template the payload is the default body: messages
\* [system, user] in that order, temperature 0.2, top_p 0.9, stream false, and
\* the key model exactly when the configured model is non-empty, then with the
\* model as its value (never null).
C10_DefaultPayloadOmitsModel ==
    DefaultPayloadBuilt =>
        /\ payload.t = "map"
        /\ \A k \in Keys(payload.m) : Occurrences(k, [i \in 1..Len(payload.m) |-> payload.m[i].k]) = 1
        /\ Keys(payload.m) \ {<<"model">>} =
               {<<"messages">>, <<"temperature">>, <<"top_p">>, <<"stream">>}
        /\ Lookup(payload.m, <<"messages">>) =
               JList(<<JMap(<<Item(<<"role">>, JStr(<<"system">>)),
                              Item(<<"content">>, JStr(args.system_prompt))>>),
                       JMap(<<Item(<<"role">>, JStr(<<"user">>)),
                              Item(<<"content">>, JStr(args.user_prompt))>>)>>)
        /\ Lookup(payload.m, <<"temperature">>) = JNum(<<"0", ".", "2">>)
        /\ Lookup(payload.m, <<"top_p">>) = JNum(<<"0", ".", "9">>)
        /\ Lookup(payload.m, <<"stream">>) = JBool(FALSE)
        /\ HasKey(payload.m, <<"model">>) <=> conf.api_model # <<>>
        /\ HasKey(payload.m, <<"model">>) =>
               Lookup(payload.m, <<"model">>) = JStr(conf.api_model)
        /\ sent # <<>> => sent[1].data = payload

\* C10 witness: a default payload was sent with no model configured
C10_Witness ==
    /\ DefaultPayloadBuilt
    /\ sent # <<>>
    /\ conf.api_model = <<>>
    /\ ~HasKey(payload.m, <<"model">>)

-----------------------------------------------------------------------------
(* Properties of _strip_think_blocks (SpecStrip) *)

\* C5 as stated: stripping the stripped text again changes nothing.
C5_StripIdempotent == pc = "twice" => text = ret.val

\* a complete span of the kind: an opening tag with a closing tag after it
HasSpan(kind, s) ==
    \E i \in 1..Len(s) : \E j \in 1..Len(s) :
        /\ OpenLen(kind, s, i) > 0
        /\ j >= i + OpenLen(kind, s, i)
        /\ CloseLen(kind, s, j) > 0

\* C6 as stated: the stripped text holds no complete <think> or <reasoning>
\* span, whatever the case of the tags, and "<think>x</think>Hello" becomes
\* "Hello".
C6_NoSpanLeft ==
    pc \in {"once", "twice"} =>
        /\ ~HasSpan("think", ret.val)
        /\ ~HasSpan("reasoning", ret.val)
        /\ args.text = <<"<", "think>", "x", "</think>", "Hello">> => ret.val = <<"Hello">>

-----------------------------------------------------------------------------
(* Properties of extract_by_path (SpecPath) *)

\* navigation as C7 describes it: on a sequence the segment must be a
\* non-negative integer within bounds, on a mapping a key that is present,
\* on a scalar there is no way on
ClaimedStep(cur, part) ==
    IF cur.t = "list"
    THEN LET idx == IntParse(part)
         IN  IF idx.ok /\ idx.val >= 0 /\ idx.val < Len(cur.l)
             THEN Return(cur.l[idx.val + 1]) ELSE Raise("PathResolutionError", part)
    ELSE IF cur.t = "map" /\ HasKey(cur.m, part) THEN Return(Lookup(cur.m, part))
    ELSE Raise("PathResolutionError", part)

RECURSIVE ClaimedWalk(_, _)
ClaimedWalk(cur, parts) ==
    IF parts = <<>> THEN Return(cur)
    ELSE LET step == ClaimedStep(cur, Head(parts))
         IN  IF step.ok THEN ClaimedWalk(step.val, Tail(parts)) ELSE step

ClaimedResolve(data, path) ==
    IF path = <<>> THEN Return(data) ELSE ClaimedWalk(data, SplitOn(path, "."))

\* C7 as stated: extract_by_path fails exactly when the navigation is invalid
\* in the sense above and otherwise returns the nested value.
C7_FailsExactlyOnInvalidNavigation ==
    pc = "done" =>
        LET claimed == ClaimedResolve(args.data, args.path)
        IN  /\ ret.ok = claimed.ok
            /\ ret.ok => ret.val = claimed.val

\* C8: with the empty path extract_by_path returns its data argument, for
\* every kind of JSON value, and raises nothing.
C8_EmptyPathReturnsData ==
    (pc = "done" /\ args.path = <<>>) => ret = Return(args.data)

\* C8 witness: the empty path was resolved on a mapping
C8_Witness ==
    /\ pc = "done"
    /\ args.path = <<>>
    /\ args.data.t = "map"
    /\ ret.ok

-----------------------------------------------------------------------------
(* Properties of replace_placeholders (SpecRender) *)

BindingFor(mapping, s, i) ==
    {b \in 1..Len(mapping) : MatchAt(s, i, Placeholder(mapping[b].k))}

\* the string with every {{key}} that occurs in it replaced by the binding
\* for key, read from the left; nothing else is changed
RECURSIVE ClaimedString(_, _, _)
ClaimedString(s, i, mapping) ==
    IF i > Len(s) THEN <<>>
    ELSE LET hits == BindingFor(mapping, s, i)
         IN  IF hits = {} THEN <<s[i]>> \o ClaimedString(s, i + 1, mapping)
             ELSE LET b == CHOOSE x \in hits : TRUE
                  IN  mapping[b].v
                      \o ClaimedString(s, i + Len(Placeholder(mapping[b].k)), mapping)

RECURSIVE ClaimedRender(_, _)
ClaimedRender(obj, mapping) ==
    IF obj.t = "str" THEN JStr(ClaimedString(obj.s, 1, mapping))
    ELSE IF obj.t = "list"
    THEN JList([i \in 1..Len(obj.l) |-> ClaimedRender(obj.l[i], mapping)])
    ELSE IF obj.t = "map"
    THEN JMap([i \in 1..Len(obj.m) |-> Item(obj.m[i].k, ClaimedRender(obj.m[i].v, mapping))])
    ELSE obj

\* C9 as stated: the result has the shape of the template, every {{key}} of
\* the template replaced by the binding for key, unbound placeholders left
\* as they are, non-strings unchanged.
C9_EveryPlaceholderReplacedByItsBinding ==
    pc = "done" => ret = Return(ClaimedRender(args.template, args.mapping))
-----------------------------------------------------------------------------
(* Properties of _normalize_to_text (SpecNorm) *)

\* the type field of a mapping element, as the code reads it
TypeOf(item) == StrLower(PyStr(GetOr(item.m, <<"type">>, JStr(<<>>))))
IsReasoningElement(item) == item.t = "map" /\ TypeOf(item) \in ReasoningTypes

RECURSIVE WithoutReasoning(_)
WithoutReasoning(l) ==
    IF l = <<>> THEN <<>>
    ELSE IF IsReasoningElement(Head(l)) THEN WithoutReasoning(Tail(l))
    ELSE <<Head(l)>> \o WithoutReasoning(Tail(l))

\* the list with the type of every reasoning element changed to a type that
\* is neither a reasoning type nor text
Retyped(l) ==
    [i \in 1..Len(l) |->
        IF IsReasoningElement(l[i])
        THEN JMap([j \in 1..Len(l[i].m) |->
                      IF l[i].m[j].k = <<"type">> THEN Item(<<"type">>, JStr(<<"image">>))
                      ELSE l[i].m[j]])
        ELSE l[i]]

SkipKeep ==
    <<JMap(<<Item(<<"type">>, JStr(<<"reasoning">>)), Item(<<"text">>, JStr(<<"t">>))>>),
      JMap(<<Item(<<"type">>, JStr(<<"text">>)), Item(<<"text">>, JStr(<<"t">>)),
             Item(<<"content">>, JStr(<<"c">>))>>)>>

\* C11: on a list, with stripping enabled the elements whose type is a
\* reasoning type (in any case) add nothing: the text is that of the list
\* without them; with stripping disabled they add what an element of any
\* other type adds, so a reasoning element's text is in the result.
C11_ReasoningElementsSkippedIffStripping ==
    (pc = "done" /\ args.value.t = "list") =>
        /\ args.strip_think =>
               ret.val = NormalizeToText(JList(WithoutReasoning(args.value.l)), FALSE)
        /\ ~args.strip_think =>
               ret.val = NormalizeToText(JList(Retyped(args.value.l)), TRUE)
        /\ args.value.l = SkipKeep =>
               ret.val = IF args.strip_think THEN <<"t">> ELSE <<"t", "\n", "t">>

\* C11 witness: a list with a reasoning element (type in capitals) that has a
\* text, normalized with stripping enabled
C11_Witness ==
    /\ pc = "done"
    /\ args.strip_think
    /\ args.value.t = "list"
    /\ \E i \in 1..Len(args.value.l) :
           /\ IsReasoningElement(args.value.l[i])
           /\ GetOr(args.value.l[i].m, <<"type">>, JNull) = JStr(<<"Thinking">>)
           /\ GetOr(args.value.l[i].m, <<"text">>, JNull) = JStr(<<"t">>)
    /\ ret.val # NormalizeToText(args.value, FALSE)

\* what an element adds as C12 describes it: a mapping its text field if it
\* has one, otherwise its content field, as a string, whatever its type; any
\* other element its string form
ClaimedChunk(item) ==
    IF item.t = "map"
    THEN IF HasKey(item.m, <<"text">>) THEN <<PyStr(Lookup(item.m, <<"text">>))>>
         ELSE IF HasKey(item.m, <<"content">>) THEN <<PyStr(Lookup(item.m, <<"content">>))>>
         ELSE <<>>
    ELSE <<PyStr(item)>>

RECURSIVE ClaimedChunks(_)
ClaimedChunks(l) ==
    IF l = <<>> THEN <<>> ELSE ClaimedChunk(Head(l)) \o ClaimedChunks(Tail(l))

\* C12 as stated: the text of a list is the non-empty chunks of the surviving
\* elements, each as described above, joined by a newline in element order
\* and trimmed.
C12_TextThenContentWhateverType ==
    (pc = "done" /\ args.value.t = "list") =>
        LET surviving == IF args.strip_think THEN WithoutReasoning(args.value.l)
                         ELSE args.value.l
        IN  ret.val = StrStrip(StrJoin(NonEmpty(ClaimedChunks(surviving)), <<"\n">>))

\* the order of the fields, and a value that is neither null nor ""
FieldOrder == <<"final", "answer", "output_text", "text", "content">>
Qualifies(m, k) == HasKey(m, <<k>>) /\ Lookup(m, <<k>>) \notin {JNull, JStr(<<>>)}

\* C13: on a mapping the text is that of the first field, in the order final,
\* answer, output_text, text, content, that is present and neither null nor
\* ""; if there is none, that of the message field when it is present and
\* neither null nor ""; otherwise the JSON serialization of the mapping.
C13_FirstQualifyingFieldThenMessageThenJson ==
    (pc = "done" /\ args.value.t = "map") =>
        LET m == args.value.m
            qualifying == {i \in 1..Len(FieldOrder) : Qualifies(m, FieldOrder[i])}
        IN  IF qualifying # {}
            THEN LET first == CHOOSE i \in qualifying : \A j \in qualifying : i <= j
                 IN  ret.val = NormalizeToText(Lookup(m, <<FieldOrder[first]>>), args.strip_think)
            ELSE IF Qualifies(m, "message")
            THEN ret.val = NormalizeToText(Lookup(m, <<"message">>), args.strip_think)
            ELSE ret.val = JsonDumps(args.value)

\* C13 witness: a later field was taken because the fields before it are null
\* or "", although the mapping has a message
C13_Witness ==
    /\ pc = "done"
    /\ args.value.t = "map"
    /\ \E i \in 2..Len(FieldOrder) :
           /\ Qualifies(args.value.m, FieldOrder[i])
           /\ \A j \in 1..(i - 1) : HasKey(args.value.m, <<FieldOrder[j]>>)
                                    /\ ~Qualifies(args.value.m, FieldOrder[j])
           /\ ret.val = NormalizeToText(Lookup(args.value.m, <<FieldOrder[i]>>), args.strip_think)
    /\ Qualifies(args.value.m, "message")


-----------------------------------------------------------------------------
(* Properties of the request headers and of the configuration (Spec) *)

\* what the environment configures, read off the variables themselves: a
\* variable that is unset or empty leaves its default in force
SettingOf(v, default) == IF v.set /\ StrStrip(v.s) # <<>> THEN v.s ELSE default
KeyOf(env) == SettingOf(env.REPORT_API_KEY, <<>>)
AuthHeaderOf(env) == SettingOf(env.REPORT_API_AUTH_HEADER, <<"Authorization">>)
ExtraOf(env) ==
    IF env.REPORT_API_EXTRA_HEADERS_JSON = Set(<<HeadersText>>) THEN HeadersDoc.m ELSE <<>>

HeaderNames == {<<"Content-Type">>, <<"Authorization">>, <<"X-Api-Key">>, <<"X-Trace">>}
NoHeader == [t |-> "absent"]

\* the value of header n when the headers start from the content type, the
\* auth header is then set to the trimmed "scheme key" if there is a key, and
\* the extra headers are merged last
ExpectedHeader(env, scheme, n) ==
    IF HasKey(ExtraOf(env), n) THEN Lookup(ExtraOf(env), n)
    ELSE IF KeyOf(env) # <<>> /\ n = AuthHeaderOf(env)
    THEN JStr(StrStrip(scheme \o <<" ">> \o KeyOf(env)))
    ELSE IF n = <<"Content-Type">> THEN JStr(<<"application/json">>)
    ELSE NoHeader

HeadersAre(h, env, scheme) ==
    /\ h[1].k = <<"Content-Type">>
    /\ \A i, j \in 1..Len(h) : h[i].k = h[j].k => i = j
    /\ \A i \in 1..Len(h) : h[i].k \in HeaderNames
    /\ \A n \in HeaderNames :
           /\ HasKey(h, n) <=> ExpectedHeader(env, scheme, n) # NoHeader
           /\ HasKey(h, n) => Lookup(h, n) = ExpectedHeader(env, scheme, n)

\* C14: once the headers are built they are Content-Type: application/json,
\* then the configured auth header with the trimmed "scheme key" exactly when
\* the key is not empty, then the extra headers, which replace a header of
\* the same name; the request that is sent carries exactly these headers.
\* The scheme is the resolved one: the variable, or Bearer when it is unset
\* or empty.
C14_HeadersContentTypeAuthThenExtras ==
    /\ headers # <<>> =>
           HeadersAre(headers, args.env,
                      SettingOf(args.env.REPORT_API_AUTH_SCHEME, <<"Bearer">>))
    /\ sent # <<>> => sent[1].headers = headers /\ headers # <<>>

\* C14 witness: a request was sent with a key, the content type as the auth
\* header and extra headers that name the content type: the extra header won
C14_Witness ==
    /\ sent # <<>>
    /\ KeyOf(args.env) = <<"k">>
    /\ AuthHeaderOf(args.env) = <<"Content-Type">>
    /\ ExtraOf(args.env) # <<>>
    /\ Lookup(sent[1].headers, <<"Content-Type">>) = JStr(<<"text/plain">>)
    /\ Lookup(sent[1].headers, <<"X-Trace">>) = JStr(<<"1">>)

\* C15 as stated: with REPORT_API_AUTH_SCHEME set to the empty string and a
\* key, the auth header that is sent holds the key alone.
C15_EmptySchemeSendsRawKey ==
    (/\ sent # <<>>
     /\ args.env.REPORT_API_AUTH_SCHEME = Set(<<>>)
     /\ KeyOf(args.env) # <<>>
     /\ ~HasKey(ExtraOf(args.env), AuthHeaderOf(args.env))) =>
        Lookup(sent[1].headers, AuthHeaderOf(args.env)) = JStr(KeyOf(args.env))

-----------------------------------------------------------------------------
(* Properties of getenv (SpecEnv) *)

\* C16: getenv on a variable that holds the empty string does what it does
\* on an unset variable: when the variable is not required it returns the
\* default (the empty string when the default is None); when it is required
\* it returns a default that is not blank, and with no default it raises
\* Missing required env var and returns nothing.
C16_EmptyValueIsUnset ==
    (pc = "done" /\ args.value = Set(<<>>)) =>
        /\ ret = Getenv((args.name :> Unset), args.name, args.default, args.required)
        /\ ~args.required =>
               ret = Return(IF args.default.set THEN args.default.s ELSE <<>>)
        /\ (args.required /\ args.default.set /\ StrStrip(args.default.s) # <<>>) =>
               ret = Return(args.default.s)
        /\ (args.required /\ ~args.default.set) =>
               ret = Raise("Missing required env var", args.name)

\* C16 witness: a required variable with no default holds the empty string
\* and the call raised
C16_Witness ==
    /\ pc = "done"
    /\ args.value = Set(<<>>)
    /\ args.required
    /\ ~args.default.set
    /\ ~ret.ok

-----------------------------------------------------------------------------
(* Properties of the failures of call_cloud_api (Spec) *)

\* the three invalid configurations of C17, read off the environment
UrlMissing(env) == SettingOf(env.REPORT_API_URL, <<>>) = <<>>
NotJson(v) == SettingOf(v, <<>>) = <<"{", "oops">>
InvalidConfig(env) ==
    \/ UrlMissing(env)
    \/ NotJson(env.REPORT_API_REQUEST_TEMPLATE_JSON)
    \/ NotJson(env.REPORT_API_EXTRA_HEADERS_JSON)

\* a REPORT_API_TIMEOUT that int() accepts
TimeoutIsInt(env) ==
    \A i \in 1..Len(SettingOf(env.REPORT_API_TIMEOUT, <<"1", "2", "0">>)) :
        SettingOf(env.REPORT_API_TIMEOUT, <<"1", "2", "0">>)[i]
            \in {"0", "1", "2", "3", "4", "5", "6", "7", "8", "9"}

\* the error an invalid configuration ends with: that of the first invalid
\* setting in the order the code reads and uses them
ConfigurationErrorOf(env) ==
    IF UrlMissing(env) THEN "Missing required env var"
    ELSE IF ~TimeoutIsInt(env) THEN "ValueError"
    ELSE IF NotJson(env.REPORT_API_REQUEST_TEMPLATE_JSON)
    THEN "Invalid REPORT_API_REQUEST_TEMPLATE_JSON"
    ELSE "Invalid REPORT_API_EXTRA_HEADERS_JSON"

\* C17: with no REPORT_API_URL (unset or empty), or a request template or
\* extra headers that are not JSON, the invocation never gets to sending: no
\* request is issued, no text is produced, and when it has ended it has
\* failed with the error of the first invalid setting (for the two JSON
\* settings an error that carries the decode error); ahead of building it is
\* the missing URL, or a REPORT_API_TIMEOUT that is not an integer, that ends
\* it.
C17_InvalidConfigurationFailsBeforeSending ==
    InvalidConfig(args.env) =>
        /\ sent = <<>> /\ raw = <<>> /\ text = <<>>
        /\ pc \in {"Idle", "Building", "Failed"}
        /\ pc = "Building" => ~UrlMissing(args.env) /\ TimeoutIsInt(args.env)
        /\ pc = "Failed" =>
               /\ ~ret.ok
               /\ ret.kind = ConfigurationErrorOf(args.env)
               /\ ret.kind \in {"Invalid REPORT_API_REQUEST_TEMPLATE_JSON",
                                "Invalid REPORT_API_EXTRA_HEADERS_JSON"} =>
                      ret.detail.kind = "JSONDecodeError"

\* C17 witness: the URL is set, the extra headers are not JSON, and the
\* invocation failed on them with nothing sent
C17_Witness ==
    /\ pc = "Failed"
    /\ ~UrlMissing(args.env)
    /\ ~NotJson(args.env.REPORT_API_REQUEST_TEMPLATE_JSON)
    /\ NotJson(args.env.REPORT_API_EXTRA_HEADERS_JSON)
    /\ ret.kind = "Invalid REPORT_API_EXTRA_HEADERS_JSON"
    /\ sent = <<>>

\* a 2xx reply whose body is not a JSON document
NotJsonReply(r) ==
    \/ r.kind = "ok_undecodable"
    \/ r.kind = "ok" /\ (Len(r.body) # 1 \/ r.body[1] \notin DOMAIN JsonDocs)

\* the first n characters of a body made of the filler and single characters
FirstChars(body, n) ==
    IF body = <<Filler, "a", "b">> /\ n = 500 THEN <<Filler, "a">> ELSE body

\* C18 as stated: after a request was sent, a non-2xx reply ends the call
\* with the remote error (status code and body, or the error's string form
\* when the body cannot be read), a transport failure (URLError, timeout,
\* connection lost while reading) with the transport error and its cause, a
\* 2xx body that is not JSON with the invalid-response error and the first
\* 500 characters of the body; nothing is extracted or normalized.
C18_ExchangeAndDecodingFailuresByStage ==
    LET r == args.reply
    IN  (sent # <<>> /\ (r.kind # "ok" \/ NotJsonReply(r))) =>
            /\ pc \in {"Decoding", "Failed"}
            /\ result = JNull /\ value = JNull /\ text = <<>>
            /\ pc = "Failed" =>
                   /\ ~ret.ok
                   /\ r.kind = "http_error" =>
                          /\ ret.kind = "Cloud API HTTP"
                          /\ ret.detail = [code |-> r.code, detail |-> r.body]
                   /\ r.kind = "http_error_unreadable" =>
                          /\ ret.kind = "Cloud API HTTP"
                          /\ ret.detail = [code |-> r.code, detail |-> r.str]
                   /\ r.kind \in {"url_error", "timeout", "incomplete_read"} =>
                          /\ ret.kind = "Cloud API request failed"
                          /\ ret.detail = r.reason
                   /\ NotJsonReply(r) =>
                          /\ ret.kind = "Cloud API returned non-JSON response"
                          /\ r.kind = "ok" => ret.detail = FirstChars(r.body, 500)

-----------------------------------------------------------------------------
(* Properties of ensure_minimum_sections (SpecSections) *)

\* by the way the text was put together, it holds all seven headers exactly
\* when it has a block for each section, titled with two hashes or more
AllSectionsPresent(shape) == shape.present = 1..7 /\ shape.hashes >= 2

TitleLine(date_str) == <<"#", " ", "Daily Report - ">> \o date_str \o <<"\n">>
RawSection(t) == <<"#", "#", "#", " ", "Raw Model Output", "\n">> \o t \o <<"\n">>
NaLine(i) == IF i = 7 THEN "- [ ] N/A" ELSE "- N/A"
IsPrefix(p, s) == Len(p) <= Len(s) /\ SubSeq(s, 1, Len(p)) = p
IsSuffix(p, s) == Len(p) <= Len(s) /\ SubSeq(s, Len(s) - Len(p) + 1, Len(s)) = p

\* C19: a text with all seven headers comes back as it is; any other text
\* comes back as the title line with the date, the seven headers in order
\* each with its N/A line, a rule, and a Raw Model Output section that
\* holds the text as it was, and nothing else; either way the result holds
\* all seven headers.
C19_UnchangedOrWrappedInSkeleton ==
    pc = "done" =>
        /\ ret.ok
        /\ AllSectionsPresent(args.shape) => ret.val = args.text
        /\ ~AllSectionsPresent(args.shape) =>
               /\ IsPrefix(TitleLine(args.date_str) \o <<"\n">>, ret.val)
               /\ IsSuffix(<<"\n", "---", "\n", "\n">> \o RawSection(args.text), ret.val)
               /\ \A i \in 1..7 :
                      MatchAt(ret.val, Len(TitleLine(args.date_str)) + 2 + 8 * (i - 1),
                              RequiredSections[i] \o <<"\n", NaLine(i), "\n", "\n">>)
               /\ Len(ret.val) = Len(TitleLine(args.date_str)) + 1 + 7 * 8 + 3
                                     + Len(RawSection(args.text))
        /\ \A i \in 1..7 : Contains(ret.val, RequiredSections[i])

\* C19 witness: a text that has six of the seven sections, and one titled
\* with three hashes at that, was wrapped
C19_Witness ==
    /\ pc = "done"
    /\ args.shape.present = 1..6
    /\ args.shape.hashes = 3
    /\ Contains(args.text, <<"#", "#", "#", " ", "Metrics">>)
    /\ ret.val # args.text
    /\ IsSuffix(RawSection(args.text), ret.val)

-----------------------------------------------------------------------------
(* Properties of main (SpecMain) *)

\* C20: when the --input path does not exist the run ends with status 2 and
\* call_cloud_api is never entered (no setting is read, nothing is sent);
\* when the run has ended with status 0, call_cloud_api had returned a text,
\* the parent of --output is a directory and --output is a file that holds
\* that text, or the skeleton around it, and ends with a newline.
C20_ExitTwoWithoutCallExitZeroAfterWrite ==
    /\ args.files.input.kind = "absent" =>
           /\ pc \in {"main", "exited"}
           /\ conf = NoConf /\ sent = <<>>
           /\ exit_code.set => exit_code.code = 2
    /\ (exit_code.set /\ exit_code.code = 0) =>
           /\ ret.ok /\ Len(sent) = 1
           /\ fs.parent = "dir"
           /\ fs.output.kind = "file"
           /\ IsSuffix(<<"\n">>, fs.output.content)
           /\ \/ fs.output.content = ret.val \o <<"\n">>
              \/ /\ IsPrefix(TitleLine(args.date), fs.output.content)
                 /\ IsSuffix(RawSection(ret.val), fs.output.content)

\* C20 witness: a run ended with status 0 where the parent of --output did
\* not exist: it is a directory now and the file holds the report, which had
\* all sections, and the newline added to it
C20_Witness ==
    /\ pc = "exited"
    /\ exit_code.code = 0
    /\ args.files.parent = "absent"
    /\ fs.parent = "dir"
    /\ fs.output.kind = "file"
    /\ fs.output.content = ret.val \o <<"\n">>
-----------------------------------------------------------------------------
(* Properties of one invocation as a whole (Spec) *)

\* the stage that follows each stage when nothing fails
StageAfter ==
    [ Idle |-> "Building", Building |-> "Sending", Sending |-> "Decoding",
      Decoding |-> "Extracting", Extracting |-> "Normalizing",
      Normalizing |-> "Stripping", Stripping |-> "Done" ]

\* C21: every step of an invocation leads from a stage that is neither Done
\* nor Failed to the stage that follows it in the order Idle, Building,
\* Sending, Decoding, Extracting, Normalizing, Stripping, Done, or to
\* Failed; so nothing runs after a failure.  A request is issued only by the
\* step out of Sending, and there is never more than one.
C21_StagesInOrderOnePost ==
    [][ /\ pc \in DOMAIN StageAfter
        /\ pc' \in {StageAfter[pc], "Failed"}
        /\ sent' # sent => pc = "Sending" /\ sent = <<>> /\ Len(sent') = 1
        /\ sent' = <<>> \/ sent'[1].method = "POST" ]_vars

\* C21 witness: an invocation failed after its one request (a URLError) and
\* has done nothing since
C21_Witness ==
    /\ pc = "Failed"
    /\ args.reply.kind = "url_error"
    /\ Len(sent) = 1
    /\ raw = <<>> /\ result = JNull /\ text = <<>>

-----------------------------------------------------------------------------
(* Properties of two concurrent invocations (SpecPair) *)

\* what an invocation with the arguments a comes to when it is the only one:
\* the stages of call_cloud_api one after the other
OutcomeAlone(a) ==
    LET env     == a.env
        api_url == Getenv(env, "REPORT_API_URL", Unset, TRUE)
        timeout == IntParse(Getenv(env, "REPORT_API_TIMEOUT", Set(<<"1", "2", "0">>), FALSE).val)
        c == [ api_key |-> Getenv(env, "REPORT_API_KEY", Set(<<>>), FALSE).val,
               api_model |-> Getenv(env, "REPORT_API_MODEL", Set(<<>>), FALSE).val,
               response_paths_csv |-> ResponsePathsCsv(env),
               auth_header |-> Getenv(env, "REPORT_API_AUTH_HEADER", Set(<<"Authorization">>), FALSE).val,
               auth_scheme |-> Getenv(env, "REPORT_API_AUTH_SCHEME", Set(<<"Bearer">>), FALSE).val,
               extra_headers_json |-> Getenv(env, "REPORT_API_EXTRA_HEADERS_JSON", Set(<<>>), FALSE).val,
               request_template_json |-> Getenv(env, "REPORT_API_REQUEST_TEMPLATE_JSON", Set(<<>>), FALSE).val,
               strip_think |-> StripThinkOn(Getenv(env, "REPORT_STRIP_THINK", Set(<<"true">>), FALSE).val) ]
        p == BuildPayload(c, a.system_prompt, a.user_prompt)
        h == BuildHeaders(c)
        decoded == JsonLoads(a.reply.body)
        got == ExtractFirstAvailable(decoded.val, c.response_paths_csv)
        normal == NormalizeToText(got.val, c.strip_think)
    IN  IF ~api_url.ok THEN api_url
        ELSE IF ~timeout.ok THEN timeout
        ELSE IF ~p.ok THEN p
        ELSE IF ~h.ok THEN h
        ELSE IF a.reply.kind = "http_error"
        THEN Raise("Cloud API HTTP", [code |-> a.reply.code, detail |-> a.reply.body])
        ELSE IF a.reply.kind = "url_error"
        THEN Raise("Cloud API request failed", a.reply.reason)
        ELSE IF ~decoded.ok
        THEN Raise("Cloud API returned non-JSON response", Prefix(a.reply.body, RawPrefixLen))
        ELSE IF ~got.ok THEN got
        ELSE Finish(IF c.strip_think THEN StripThinkBlocks(normal) ELSE normal)

Ended(f) == f.pc \in {"Done", "Failed"}

\* C22: whatever the order in which two invocations take their steps, an
\* invocation that has ended has the outcome (the text returned or the
\* error) that its own settings, prompts and reply give when it runs alone,
\* and it has issued at most its own one request with its own prompts; an
\* invocation that has not started has nothing of the other one's.
C22_OutcomeAsWhenRunAlone ==
    parked # <<>> =>
        \A f \in {Frame, parked[1]} :
            /\ Ended(f) => f.ret = OutcomeAlone(f.args)
            /\ Len(f.sent) <= 1
            /\ f.sent # <<>> =>
                   f.sent[1].data = BuildPayload(f.conf, f.args.system_prompt,
                                                 f.args.user_prompt).val
            /\ f.pc = "Idle" =>
                   /\ f.conf = NoConf /\ f.payload = JNull /\ f.headers = <<>>
                   /\ f.raw = <<>> /\ f.result = JNull /\ f.value = JNull /\ f.text = <<>>

\* C22 witness: both invocations have ended, the one that is running
\* returned its text after the other one, which got another reply, had sent
\* its request and failed
C22_Witness ==
    /\ parked # <<>>
    /\ pc = "Done" /\ ret.ok /\ ret.val = <<"Hello">>
    /\ parked[1].pc = "Failed"
    /\ parked[1].args.reply.kind = "http_error"
    /\ Len(parked[1].sent) = 1

-----------------------------------------------------------------------------
(* Properties of the text returned (SpecStrip, Spec) *)

\* some line of s begins, after blanks, with Reasoning, Thought or Thinking
\* (in any case) and a colon, with or without blanks between the two
HasReasoningLine(s) ==
    \E i \in 1..Len(s) : \E w \in i..Len(s) : \E c \in (w + 1)..Len(s) :
        /\ LineStart(s, i)
        /\ \A k \in i..(w - 1) : s[k] \in {" ", "\t"}
        /\ LowerSym(s[w]) \in ReasoningWords
        /\ \A k \in (w + 1)..(c - 1) : s[k] \in {" ", "\t"}
        /\ s[c] = ":"

\* a content as C23 describes it: not empty, trimmed, no three newlines in a
\* row, no complete think, reasoning or fenced span, no reasoning line
CleanContent(s) ==
    /\ s # <<>>
    /\ StrStrip(s) = s
    /\ ~\E i \in 1..(Len(s) - 2) : s[i] = "\n" /\ s[i + 1] = "\n" /\ s[i + 2] = "\n"
    /\ ~HasSpan("think", s) /\ ~HasSpan("reasoning", s) /\ ~HasSpan("fence", s)
    /\ ~HasReasoningLine(s)

\* C23 as stated: with the default path and stripping enabled, a response
\* whose choices.0.message.content is such a string is extracted, normalized
\* and stripped to that same string, which is returned.
C23_CleanContentReturnedUnchanged ==
    (pc = "once" /\ CleanContent(args.text)) =>
        LET got == ExtractFirstAvailable(Msg(<<Item(<<"content">>, JStr(args.text))>>),
                       <<"choices", ".", "0", ".", "message", ".", "content">>)
        IN  /\ got = Return(JStr(args.text))
            /\ NormalizeToText(got.val, TRUE) = args.text
            /\ ret.val = args.text
            /\ Finish(ret.val) = Return(args.text)

\* the choices.0.message mapping of a decoded response holds a non-empty
\* string under k and also holds content
MessageHasBoth(doc, k) ==
    LET m == ExtractByPath(doc, <<"choices", ".", "0", ".", "message">>)
    IN  IF doc = JNull \/ ~m.ok THEN FALSE
        ELSE IF m.val.t # "map" THEN FALSE
        ELSE IF ~HasKey(m.val.m, k) \/ ~HasKey(m.val.m, <<"content">>) THEN FALSE
        ELSE IF Lookup(m.val.m, k).t # "str" THEN FALSE
        ELSE StrStrip(Lookup(m.val.m, k).s) # <<>>

\* C24 as stated: with both response-path settings unset, a response whose
\* message holds a non-empty final (or answer) and a content makes the call
\* return the text of final (or answer).
C24_FinalAnswerPreferred ==
    \A k \in {<<"final">>, <<"answer">>} :
        ( /\ pc \in {"Done", "Failed"}
          /\ args.env.REPORT_API_RESPONSE_PATHS = Unset
          /\ args.env.REPORT_API_RESPONSE_PATH = Unset
          /\ MessageHasBoth(result, k) ) =>
            ret = Return(StrStrip(Lookup(
                      ExtractByPath(result, <<"choices", ".", "0", ".", "message">>).val.m, k).s))

\* C25 as stated: in a text without think, reasoning or fence markup, a line
\* that is exactly Hello (ordinary content, no reasoning prefix) is still in
\* the result of the strip, whatever the lines around it are.
C25_OrdinaryLineKept ==
    ( /\ pc = "once"
      /\ \A j \in 1..Len(args.text) :
             args.text[j] \in {"Thought", "reasoning", ":", "Hello", " ", "\n"} ) =>
        \A i \in 1..Len(args.text) :
            ( /\ LineStart(args.text, i)
              /\ args.text[i] = "Hello"
              /\ (i = Len(args.text) \/ args.text[i + 1] = "\n") ) =>
                Contains(ret.val, <<"Hello">>)

-----------------------------------------------------------------------------
(* Timeouts (Spec) *)

\* C26 as stated: a request that ran into the timeout, while connecting
\* (urlopen raises URLError) or after the request was sent (the wait for the
\* response or the read of its body raises), ends with the transport error
\* "Cloud API request failed".
C26_TimeoutIsTransportError ==
    ( /\ sent # <<>>
      /\ pc = "Failed"
      /\ args.reply.kind \in {"url_error", "timeout"}
      /\ args.reply.reason = <<"timed out">> ) =>
        ret.kind = "Cloud API request failed"

-----------------------------------------------------------------------------
(* The output file (SpecMain) *)

\* C27: the files change only in the step that follows a call_cloud_api that
\* returned text, and an output that changes becomes the whole report, ended
\* by a newline; a run that ends on a missing input or on an error of
\* call_cloud_api leaves the files as they were.
C27_OutputAllOrNothing ==
    [][ /\ fs' # fs => pc = "Done" /\ ret.ok /\ ret.val # <<>>
        /\ fs'.output # fs.output =>
               /\ fs'.output.kind = "file"
               /\ IsPrefix(EnsureMinimumSections(ret.val, args.date), fs'.output.content)
               /\ fs'.output.content[Len(fs'.output.content)] = "\n"
               /\ exit_code' = [set |-> TRUE, code |-> 0]
        /\ (pc' = "exited" /\ (fs.input.kind = "absent" \/ ~ret'.ok)) =>
               fs' = args'.files /\ exit_code'.code # 0
      ]_vars

\* C27 witness: call_cloud_api was called and raised, the run ended with
\* status 1, and the report of an earlier run is still what the output holds.
C27_Witness ==
    /\ pc = "exited"
    /\ exit_code = [set |-> TRUE, code |-> 1]
    /\ sent # <<>>
    /\ ~ret.ok
    /\ fs.output = [kind |-> "file", content |-> <<"old">>]
    /\ fs = args.files

-----------------------------------------------------------------------------
(* Binding values in the rendering (SpecRender) *)

\* C28 as stated: binding values are inserted as they are and not expanded
\* again, so the rendering is the same whatever the order of the bindings.
C28_RenderIndependentOfBindingOrder ==
    pc = "done" =>
        ret.val = ReplacePlaceholders(args.template, Reversed(args.mapping))

-----------------------------------------------------------------------------
(* The text returned is trimmed (Spec) *)

\* C29: a text that call_cloud_api returns is not empty and neither begins
\* nor ends with a space, a tab or a line break, with stripping on or off and
\* for an extracted value that is a string, a list, a mapping or a scalar.
C29_ReturnedTextTrimmed ==
    pc = "Done" =>
        /\ ret.ok
        /\ ret.val # <<>>
        /\ ret.val[1] \notin {" ", "\t", "\n"}
        /\ ret.val[Len(ret.val)] \notin {" ", "\t", "\n"}

\* C29 witness: with stripping disabled, the extracted value is a string that
\* begins with a space and ends with a line break, and a text was returned.
C29_Witness ==
    /\ pc = "Done"
    /\ ~conf.strip_think
    /\ value.t = "str"
    /\ value.s # <<>>
    /\ value.s[1] = " "
    /\ value.s[Len(value.s)] = "\n"
    /\ ret.ok

-----------------------------------------------------------------------------
(* ensure_minimum_sections, applied twice (SpecSections) *)

\* C30: ensure_minimum_sections applied to its own result, with the same
\* date, returns that result: a wrapped report is not wrapped again.
C30_EnsureMinimumSectionsIdempotent ==
    pc = "twice" => text = ret.val

\* C30 witness: the first call wrapped a text that lacked a section, and the
\* second call was made on the wrapped text.
C30_Witness ==
    /\ pc = "twice"
    /\ ~AllSectionsPresent(args.shape)
    /\ ret.val # args.text
    /\ Contains(text, <<"#", "#", "#", " ", "Raw Model Output", "\n">> \o args.text)

=============================================================================
